---- MODULE Spec2Model ----
(***************************************************************************)
(* Model of the OTA update path of the bindicator firmware: the access     *)
(* window (OTAEnable / OTADisable / OTAIsEnabled), the server loop         *)
(* (otaServerLoop), one transfer session (handleOTASession), the flash     *)
(* and reboot primitives of package ota, the boot oracle, the functional   *)
(* watchdog state of main(), and the reset paths of the device.            *)
(*                                                                         *)
(* Time is in seconds since boot.                                          *)
(*                                                                         *)
(* Numbers are the program's own (bytes, raw flash offsets).  Every value  *)
(* the model computes stays below 2^31; the only place where the code's    *)
(* uint32 arithmetic wraps is the decrement in                             *)
(* (totalBytes + chunkLen - 1) / SectorSize for totalBytes + chunkLen = 0, *)
(* which LastByteSector spells out.                                        *)
(***************************************************************************)
EXTENDS Integers, Sequences, FiniteSets, TLC

(***************************************************************************)
(* Program constants                                                       *)
(***************************************************************************)
PartitionA == 0
PartitionB == 1
SectorSize == 4096
PARTITION_A_OFFSET == 8192
PARTITION_B_OFFSET == 2039808
PARTITION_MAX_SIZE == 2031616
otaBufSize == 4096 + 64
otaMaxFwSize == 1984 * 1024
otaDefaultTimeout == 600
otaChunkSize == 4096
NumErasedSectors == 512
Sha256Size == 32
HashHexLen == 64
MaxUint32Sector == 1024 * 1024 - 1
maxConsecutiveFailures == 3
maxHoursWithoutRefresh == 12
NoPartitionByte == 255
\* machine.WatchdogConfig{TimeoutMillis: 8000}, in seconds
watchdogTimeout == 8
\* the one-second sleeps of fatalError() before it calls ota.Reboot()
fatalWaitSeconds == 15
\* len(LogQueue)
LogQueueSize == 8
\* the capacity of jobStorage
maxJobs == 15
\* the timeouts of the reads of a session, in seconds: the handshake, a chunk
\* header or payload, and the rest of the DONE line
otaInitTimeout == 10
otaReadTimeout == 30
otaDoneTimeout == 2

(***************************************************************************)
(* Bounds of the model (not program constants)                             *)
(***************************************************************************)
\* chunks of a length other than the CLI's otaChunkSize a client sends in
\* one session
MaxOddChunks == 1
\* a client ends its image with DONE after at most this many chunks, or when
\* the image fills the partition
MaxImageChunks == 3
\* advances of the clock between two resets
MaxTicks == 3
\* the timeout, in seconds, of an "ota-enable <n>" console command
ShortTimeout == 2
\* refresh failures counted while the device waits for its reset
MaxFailureCount == 4
\* a partition number of a partition table with more than two partitions
ThirdPartition == 2
\* the size, in bytes, of an image that the CLI pushes
ImageSize == 10000
\* seconds that sessions spend waiting for their clients between two resets
MaxWaitSeconds == 12
\* advances of the clock while the console is attacked
MaxLockoutTicks == 8
\* entries of any kind at the head of a schedule response
MaxHeadEntries == 2
\* valid entries that follow the head of a schedule response
MaxPadEntries == 16

(***************************************************************************)
(* State                                                                   *)
(***************************************************************************)
VARIABLES
    pc,               \* position of otaServerLoop / handleOTASession
    bootInfo,         \* what the ROM's get_sys_info(BOOT_INFO) answers in this boot
    systemHealthy, consecutiveFailures, lastSuccessfulRefresh,  \* part_007:302-306
    otaEnabled, otaEnabledAt, otaTimeout,   \* access window (part_002:38-46)
    now,              \* time.Now(), seconds since boot
    connState,        \* the OTA tcp.Conn
    telemetryPaused, bindicatorPaused,
    targetPartition, partitionOffset,       \* session locals
    erasedSectors, totalBytes, hasher, chunkNum,
    expectedHash, actualHashHex,
    lastReply,        \* last line written to the client: [kind, n]
    lastLog,          \* last logger.Error / Warn message of the session
    lastIn,           \* last input the session read: [kind, len, sent, n2]
    flashErases,      \* raw offsets EraseSector was called with in this session
    reErased,         \* raw offsets EraseSector was called with a second time
    dirtyWrites,      \* sectors written without an EraseSector call before
    stepErases,       \* raw offsets EraseSector was called with in the last step
    stepWrite,        \* the WriteChunk flash call of the last step: [off, len]
    stepHashed,       \* bytes fed to the hasher in the last step
    flashFault,       \* flash primitive that failed inside the last step
    oddSent,          \* client: chunks of a length other than otaChunkSize sent
    watchdog,         \* machine.Watchdog: "off", "running", or "stuck" (it fails to fire)
    lastFed,          \* time of the last machine.Watchdog.Update() (or Start())
    fatalSleeps,      \* the loop counter i of fatalError()
    unhealthyAt,      \* time at which systemHealthy last became false
    partitionConfirmed,  \* ota.ConfirmPartitionWithCode() was called in this boot
    flushPc,          \* position of each caller of flushLogs()
    sendingWg,        \* telemetry: counter of the sendingWg WaitGroup
    pauseCall,        \* telemetry.Pause() of the session: "none", "waiting"
                      \* (in sendingWg.Wait()) or "returned"
    LogCount,         \* telemetry: entries in LogQueue
    ledUpdate,        \* what the last updateLEDsFromSchedule() call of this boot did
    waited,           \* seconds the session has waited in its current read
    authFailures,     \* console: failed authentications since the last success
    lastFailureTime,  \* console: the time of the last failed authentication
    consolePc,        \* console: where consoleServer is
    consoleLog,       \* console: the last event consoleServer logged
    scheduleData,     \* the last schedule response: its entries and its bytes
    schedulePc,       \* "none", "received" or "parsed": what became of it
    jobStorage,       \* jobStorage[:jobCount], the schedule that getJobs() returns
    jobCount,         \* the number of jobs stored
    SpanQueue,        \* telemetry: the span slots
    SpanHead,         \* telemetry: the slot to reuse when all are active
    SpanCount         \* telemetry: the count of completed spans to flush

vars == << pc, bootInfo, systemHealthy, consecutiveFailures,
           lastSuccessfulRefresh, otaEnabled, otaEnabledAt, otaTimeout,
           now, connState, telemetryPaused, bindicatorPaused, targetPartition,
           partitionOffset, erasedSectors, totalBytes, hasher, chunkNum,
           expectedHash, actualHashHex, lastReply, lastLog, lastIn, flashErases,
           reErased, dirtyWrites, stepErases, stepWrite, stepHashed,
           flashFault, oddSent, watchdog, lastFed, fatalSleeps, unhealthyAt,
           partitionConfirmed, flushPc, sendingWg, pauseCall, LogCount,
           ledUpdate, waited, authFailures, lastFailureTime, consolePc,
           consoleLog, scheduleData, schedulePc, jobStorage, jobCount,
           SpanQueue, SpanHead, SpanCount >>

windowVars == << otaEnabled, otaEnabledAt, otaTimeout >>
pauseVars == << telemetryPaused, bindicatorPaused, pauseCall >>
localVars == << targetPartition, partitionOffset, erasedSectors, totalBytes,
                hasher, chunkNum, expectedHash, actualHashHex, waited >>
flashVars == << flashErases, reErased, dirtyWrites, stepErases, stepWrite,
               stepHashed, flashFault >>
healthVars == << systemHealthy, consecutiveFailures, lastSuccessfulRefresh >>
telemetryVars == << flushPc, sendingWg, LogCount >>
consoleVars == << authFailures, lastFailureTime, consolePc, consoleLog >>
scheduleVars == << scheduleData, schedulePc, jobStorage, jobCount >>
spanVars == << SpanQueue, SpanHead, SpanCount >>

\* len(SpanQueue)
SpanQueueSize == 4
SpanSlots == 0 .. (SpanQueueSize - 1)
\* a slot of SpanQueue: Active, whether EndTime is set, and whether
\* flushSpans has built the span of the slot into a payload
NoSpan == [Active |-> FALSE, Ended |-> FALSE, Flushed |-> FALSE]
\* the device state but for the time of the last feed
deviceVarsButFed == << bootInfo, now, healthVars, watchdog, fatalSleeps,
                      unhealthyAt, partitionConfirmed, consoleVars, scheduleVars, spanVars, ledUpdate, telemetryVars >>
deviceVars == << deviceVarsButFed, lastFed >>

\* the callers of flushLogs(): senderLoop and Flush() (console, OTA session)
Flushers == { "senderLoop", "Flush" }

NoPartition == 0 - 1
NoReply == [kind |-> "none", n |-> 0]
NoInput == [kind |-> "none", len |-> 0, sent |-> "none", n2 |-> 0]
NoWrite == [off |-> 0, len |-> 0]

(***************************************************************************)
(* Package ota: partition table and boot oracle                            *)
(***************************************************************************)
\* The boot info as the oracle sees it: lookup (the ROM function was found),
\* ret (its return value), flag (BOOT_INFO is set in word 0) and pp (the
\* partition byte of word 1).
BootInfoOf(partition) ==
    [lookup |-> TRUE, ret |-> 0, flag |-> TRUE, pp |-> partition]

\* the oracle as it would be without the test for "no partition"
ota_get_current_partition_KeepNone(info) ==
    IF ~info.lookup THEN 0
    ELSE IF info.ret < 0 THEN 0
    ELSE IF ~info.flag THEN 0
    ELSE info.pp

ota_get_current_partition(info) ==
    IF ~info.lookup THEN 0
    ELSE IF info.ret < 0 THEN 0
    ELSE IF ~info.flag THEN 0
    ELSE IF info.pp = NoPartitionByte THEN 0
    ELSE info.pp

GetCurrentPartition == ota_get_current_partition(bootInfo)

\* the target as it would be if it were computed as 1 - current
GetTargetPartitionFlip == 1 - ota_get_current_partition(bootInfo)

GetTargetPartition ==
    IF GetCurrentPartition = PartitionA THEN PartitionB ELSE PartitionA

GetPartitionOffset(partition) ==
    IF partition = 0 THEN PARTITION_A_OFFSET ELSE PARTITION_B_OFFSET

GetPartitionMaxSize == PARTITION_MAX_SIZE

\* the raw flash bytes of a partition
PartitionBytes(partition) ==
    [lo |-> GetPartitionOffset(partition),
     hi |-> GetPartitionOffset(partition) + GetPartitionMaxSize]

(***************************************************************************)
(* Hash and text helpers                                                   *)
(***************************************************************************)
HexDigits == << "0", "1", "2", "3", "4", "5", "6", "7",
                "8", "9", "a", "b", "c", "d", "e", "f" >>

\* The digest of the bytes hashed so far.  The image's bytes are not part of
\* the state; the digest is a fixed function of what was fed to the hasher.
Sha256Sum(fed) ==
    [i \in 1..Sha256Size |-> (fed * 131 + i * 29 + 198) % 256]

formatHashHex(hash) ==
    [k \in 1..(2 * Len(hash)) |->
        IF k % 2 = 1 THEN HexDigits[(hash[(k + 1) \div 2] \div 16) + 1]
                     ELSE HexDigits[(hash[k \div 2] % 16) + 1]]

IsSpace(c) == c \in {" ", "\n", "\r"}

\* the loops of trimSpace: start moves right, end moves left, over blanks
RECURSIVE TrimStart(_, _, _)
TrimStart(s, start, end) ==
    IF start < end /\ IsSpace(s[start + 1])
      THEN TrimStart(s, start + 1, end) ELSE start

RECURSIVE TrimEnd(_, _, _)
TrimEnd(s, start, end) ==
    IF end > start /\ IsSpace(s[end])
      THEN TrimEnd(s, start, end - 1) ELSE end

\* s[start:end] of Go, with 0-based start and exclusive end
trimSpace(s) ==
    LET start == TrimStart(s, 0, Len(s))
        end == TrimEnd(s, start, Len(s))
    IN  SubSeq(s, start + 1, end)

(***************************************************************************)
(* Access window (part_002:48-96)                                          *)
(***************************************************************************)
\* OTAEnable as it would be if it took a zero timeout as it is
OTAEnableNoDefault(timeout) ==
    /\ otaEnabled' = TRUE
    /\ otaEnabledAt' = now
    /\ otaTimeout' = timeout

\* OTAEnable(timeout): zero means the default
OTAEnable(timeout) ==
    /\ otaEnabled' = TRUE
    /\ otaEnabledAt' = now
    /\ otaTimeout' = IF timeout = 0 THEN otaDefaultTimeout ELSE timeout

\* OTADisable as it would be if it left the flag alone
OTADisableKeeps == UNCHANGED << otaEnabled, otaEnabledAt, otaTimeout >>

OTADisable ==
    /\ otaEnabled' = FALSE
    /\ UNCHANGED << otaEnabledAt, otaTimeout >>

\* the value OTAIsEnabled returns
OTAIsEnabledResult ==
    IF ~otaEnabled THEN FALSE
    ELSE IF now - otaEnabledAt > otaTimeout THEN FALSE
    ELSE TRUE

\* OTAIsEnabled clears the flag when it finds the window expired
OTAIsEnabled ==
    /\ otaEnabled' = OTAIsEnabledResult
    /\ UNCHANGED << otaEnabledAt, otaTimeout >>

(***************************************************************************)
(* Device boot and reset                                                   *)
(***************************************************************************)
\* the state in which main() starts after a reset in which the ROM answers
\* `info`
Boot(info) ==
    /\ pc' = "boot"
    /\ bootInfo' = info
    /\ systemHealthy' = TRUE
    /\ consecutiveFailures' = 0
    /\ lastSuccessfulRefresh' = 0
    /\ otaEnabled' = FALSE
    /\ otaEnabledAt' = 0
    /\ otaTimeout' = 0
    /\ now' = 0
    /\ connState' = "closed"
    /\ telemetryPaused' = FALSE
    /\ bindicatorPaused' = FALSE
    /\ targetPartition' = NoPartition
    /\ partitionOffset' = 0
    /\ erasedSectors' = {}
    /\ totalBytes' = 0
    /\ hasher' = 0
    /\ chunkNum' = 0
    /\ waited' = 0
    /\ expectedHash' = << >>
    /\ actualHashHex' = << >>
    /\ lastReply' = NoReply
    /\ lastLog' = "none"
    /\ lastIn' = NoInput
    /\ flashErases' = {}
    /\ reErased' = {}
    /\ dirtyWrites' = {}
    /\ stepErases' = {}
    /\ stepWrite' = NoWrite
    /\ stepHashed' = 0
    /\ flashFault' = "none"
    /\ oddSent' = 0
    /\ watchdog' = "off"
    /\ lastFed' = 0
    /\ fatalSleeps' = 0
    /\ unhealthyAt' = 0
    /\ partitionConfirmed' = FALSE
    /\ flushPc' = [f \in Flushers |-> "idle"]
    /\ sendingWg' = 0
    /\ pauseCall' = "none"
    /\ LogCount' = 0
    /\ ledUpdate' = "none"
    /\ authFailures' = 0
    /\ lastFailureTime' = 0
    /\ consolePc' = "check"
    /\ consoleLog' = "none"
    /\ scheduleData' = [entries |-> << >>, bytes |-> << >>]
    /\ schedulePc' = "none"
    /\ jobStorage' = << >>
    /\ jobCount' = 0
    /\ SpanQueue' = [i \in SpanSlots |-> NoSpan]
    /\ SpanHead' = 0
    /\ SpanCount' = 0

\* the state after a reset, but for the boot info
InitRest ==
    /\ pc = "boot"
    /\ systemHealthy = TRUE
    /\ consecutiveFailures = 0
    /\ lastSuccessfulRefresh = 0
    /\ otaEnabled = FALSE
    /\ otaEnabledAt = 0
    /\ otaTimeout = 0
    /\ now = 0
    /\ connState = "closed"
    /\ telemetryPaused = FALSE
    /\ bindicatorPaused = FALSE
    /\ targetPartition = NoPartition
    /\ partitionOffset = 0
    /\ erasedSectors = {}
    /\ totalBytes = 0
    /\ hasher = 0
    /\ chunkNum = 0
    /\ waited = 0
    /\ expectedHash = << >>
    /\ actualHashHex = << >>
    /\ lastReply = NoReply
    /\ lastLog = "none"
    /\ lastIn = NoInput
    /\ flashErases = {}
    /\ reErased = {}
    /\ dirtyWrites = {}
    /\ stepErases = {}
    /\ stepWrite = NoWrite
    /\ stepHashed = 0
    /\ flashFault = "none"
    /\ oddSent = 0
    /\ watchdog = "off"
    /\ lastFed = 0
    /\ fatalSleeps = 0
    /\ unhealthyAt = 0
    /\ partitionConfirmed = FALSE
    /\ flushPc = [f \in Flushers |-> "idle"]
    /\ sendingWg = 0
    /\ pauseCall = "none"
    /\ LogCount = 0
    /\ ledUpdate = "none"
    /\ authFailures = 0
    /\ lastFailureTime = 0
    /\ consolePc = "check"
    /\ consoleLog = "none"
    /\ scheduleData = [entries |-> << >>, bytes |-> << >>]
    /\ schedulePc = "none"
    /\ jobStorage = << >>
    /\ jobCount = 0
    /\ SpanQueue = [i \in SpanSlots |-> NoSpan]
    /\ SpanHead = 0
    /\ SpanCount = 0

Init ==
    /\ bootInfo \in { BootInfoOf(PartitionA), BootInfoOf(PartitionB) }
    /\ InitRest

\* the tasks of the firmware run: main() passed its start-up and did not
\* enter fatalError()
Running == pc \notin { "boot", "init", "fatal" }

\* the confirmation as it would be if only a boot from partition B confirmed
ConfirmPartitionOnlyB ==
    /\ pc = "boot"
    /\ pc' = "init"
    /\ partitionConfirmed' = (GetCurrentPartition = PartitionB)
    /\ UNCHANGED << bootInfo, now, healthVars, watchdog, lastFed, fatalSleeps,
                    unhealthyAt, ledUpdate, consoleVars, scheduleVars, spanVars, telemetryVars, windowVars, connState, pauseVars,
                    localVars, lastReply, lastLog, lastIn, flashVars, oddSent >>

\* main(): its first statement is ota.ConfirmPartitionWithCode()
\* (part_007:360-363)
ConfirmPartition ==
    /\ pc = "boot"
    /\ pc' = "init"
    /\ partitionConfirmed' = TRUE
    /\ UNCHANGED << bootInfo, now, healthVars, watchdog, lastFed, fatalSleeps,
                    unhealthyAt, ledUpdate, consoleVars, scheduleVars, spanVars, telemetryVars, windowVars, connState, pauseVars,
                    localVars, lastReply, lastLog, lastIn, flashVars, oddSent >>

\* main(): the watchdog is started (part_007:420-423), start-up succeeded,
\* otaServerInit starts otaServerLoop (part_007:527)
MainStartup ==
    /\ pc = "init"
    /\ pc' = "idle"
    /\ watchdog' = "running"
    /\ lastFed' = now
    /\ lastSuccessfulRefresh' = now
    /\ UNCHANGED << bootInfo, now, systemHealthy, consecutiveFailures,
                    fatalSleeps, unhealthyAt, partitionConfirmed, consoleVars, scheduleVars, spanVars, ledUpdate, telemetryVars,
                    windowVars, connState, pauseVars, localVars,
                    lastReply, lastLog, lastIn, flashVars, oddSent >>

\* fatalError() is entered: start-up failed after the watchdog was started
\* (part_007:445, 471, 494); systemHealthy = false stops the feeding
\* (part_007:332-336)
fatalError ==
    /\ pc = "init"
    /\ pc' = "fatal"
    /\ watchdog' = "running"
    /\ lastFed' = now
    /\ systemHealthy' = FALSE
    /\ unhealthyAt' = now
    /\ fatalSleeps' = 0
    /\ UNCHANGED << bootInfo, now, consecutiveFailures, lastSuccessfulRefresh,
                    partitionConfirmed, consoleVars, scheduleVars, spanVars, ledUpdate, telemetryVars,
                    windowVars, connState, pauseVars, localVars,
                    lastReply, lastLog, lastIn, flashVars, oddSent >>

\* fatalError(): one turn of "for i := 0; i < 15; i++ { time.Sleep(time.Second) }"
\* (part_007:338-340); a running watchdog that was not fed for
\* watchdogTimeout resets the device before the next second passes
FatalSleep ==
    /\ pc = "fatal"
    /\ fatalSleeps < fatalWaitSeconds
    /\ watchdog = "running" => now + 1 <= lastFed + watchdogTimeout
    /\ fatalSleeps' = fatalSleeps + 1
    /\ now' = now + 1
    /\ UNCHANGED << pc, bootInfo, healthVars, watchdog, lastFed, unhealthyAt,
                    partitionConfirmed, consoleVars, scheduleVars, spanVars, ledUpdate, telemetryVars,
                    windowVars, connState, pauseVars, localVars,
                    lastReply, lastLog, lastIn, flashVars, oddSent >>

\* the end of fatalError() as it would be if the function returned to its
\* caller after the wait
FatalSoftResetReturns ==
    /\ pc = "fatal"
    /\ fatalSleeps = fatalWaitSeconds
    /\ pc' = "init"
    /\ UNCHANGED << bootInfo, now, healthVars, watchdog, lastFed, fatalSleeps,
                    unhealthyAt, partitionConfirmed, consoleVars, scheduleVars, spanVars, ledUpdate, telemetryVars,
                    windowVars, connState, pauseVars, localVars,
                    lastReply, lastLog, lastIn, flashVars, oddSent >>

\* fatalError(): "watchdog didn't trigger, force software reset":
\* ota.Reboot() (part_007:342-343)
FatalSoftReset ==
    /\ pc = "fatal"
    /\ fatalSleeps = fatalWaitSeconds
    /\ Boot(bootInfo)

\* the hardware watchdog fails to trigger (the case fatalError() prepares for)
WatchdogStuck ==
    /\ pc = "fatal"
    /\ watchdog = "running"
    /\ watchdog' = "stuck"
    /\ UNCHANGED << pc, bootInfo, now, healthVars, lastFed, fatalSleeps, unhealthyAt,
                    partitionConfirmed, consoleVars, scheduleVars, spanVars, ledUpdate, telemetryVars,
                    windowVars, connState, pauseVars, localVars,
                    lastReply, lastLog, lastIn, flashVars, oddSent >>

\* the hardware watchdog expires: it was not fed for watchdogTimeout
WatchdogReset ==
    /\ watchdog = "running"
    /\ Boot(bootInfo)

\* feedWatchdogIfHealthy() as it would be without the test of systemHealthy
feedWatchdogAlways ==
    lastFed' = now

\* feedWatchdogIfHealthy(): the only caller of machine.Watchdog.Update()
\* (part_007:710-714)
feedWatchdogIfHealthy ==
    lastFed' = IF systemHealthy THEN now ELSE lastFed

\* the packet pump as it would be if it called machine.Watchdog.Update()
\* itself
loopForeverStackFeedsDirect ==
    /\ pc \notin { "boot", "init" }
    /\ watchdog = "running"
    /\ lastFed' = now
    /\ UNCHANGED << pc, deviceVarsButFed, windowVars, connState, pauseVars, localVars,
                    lastReply, lastLog, lastIn, flashVars, oddSent >>

\* loopForeverStack(): the packet pump feeds every 100 turns
\* (part_007:752-766); it runs from before the first fatalError() call site
\* that follows it (part_007:486)
loopForeverStack ==
    /\ pc \notin { "boot", "init" }
    /\ watchdog = "running"
    /\ feedWatchdogIfHealthy
    /\ UNCHANGED << pc, deviceVarsButFed, windowVars, connState, pauseVars, localVars,
                    lastReply, lastLog, lastIn, flashVars, oddSent >>

\* console command "reboot": ota.Reboot() (part_003:521-525)
ConsoleReboot ==
    /\ Running
    /\ Boot(bootInfo)

\* console command "ota-enable [dur]" (part_003:503-513)
ConsoleOTAEnable(timeout) ==
    /\ Running
    /\ OTAEnable(timeout)
    /\ UNCHANGED << pc, deviceVars, connState, pauseVars, localVars,
                    lastReply, lastLog, lastIn, flashVars, oddSent >>

\* console command "ota": the status line asks OTAIsEnabled() (part_003:467-482)
ConsoleOTAStatus ==
    /\ Running
    /\ OTAIsEnabled
    /\ UNCHANGED << pc, deviceVars, connState, pauseVars, localVars,
                    lastReply, lastLog, lastIn, flashVars, oddSent >>

\* the number of advances that lead to a clock reading (the clock advances
\* by a second, by the watchdog timeout, by the default window, or by the
\* refresh limit)
TicksOf(t) ==
    LET limit == maxHoursWithoutRefresh * 60 * 60
        rest == (t % limit) % otaDefaultTimeout
    IN  (t \div limit) + ((t % limit) \div otaDefaultTimeout)
          + (rest \div watchdogTimeout) + (rest % watchdogTimeout)

\* time passes.  While the device is healthy its tasks feed the watchdog in
\* time (sleepWithRefreshCheck every 5 s, part_007:681-706); an unhealthy
\* device is reset by the running watchdog before the clock passes
\* lastFed + watchdogTimeout.
Tick(d) ==
    /\ Running
    /\ TicksOf(now) < MaxTicks
    /\ (watchdog = "running" /\ ~systemHealthy) => now + d <= lastFed + watchdogTimeout
    /\ now' = now + d
    /\ lastFed' = IF systemHealthy /\ now + d > lastFed + watchdogTimeout
                    THEN now + d ELSE lastFed
    /\ UNCHANGED << pc, bootInfo, healthVars, watchdog, fatalSleeps, unhealthyAt,
                    partitionConfirmed, consoleVars, scheduleVars, spanVars, ledUpdate, telemetryVars, windowVars, connState, pauseVars,
                    localVars, lastReply, lastLog, lastIn, flashVars, oddSent >>

(***************************************************************************)
(* Functional watchdog state of the main loop (part_007:537-740)           *)
(***************************************************************************)
\* updateLEDsFromSchedule(): the call returns at once while the bindicator
\* is paused, else the LEDs are set from the schedule (bindicator.go:136-140)
updateLEDsFromSchedule ==
    IF bindicatorPaused THEN "skipped" ELSE "applied"

\* a wake cycle of the main loop in which no refresh is due: the feeds and
\* the LED update (part_007:537-548, 652-676)
WakeCycle ==
    /\ Running
    /\ feedWatchdogIfHealthy
    /\ ledUpdate' = updateLEDsFromSchedule
    /\ UNCHANGED << pc, bootInfo, now, healthVars, watchdog, fatalSleeps,
                    unhealthyAt, partitionConfirmed, consoleVars, scheduleVars, spanVars, telemetryVars,
                    windowVars, connState, pauseVars, localVars,
                    lastReply, lastLog, lastIn, flashVars, oddSent >>

\* the check as it would be without the test of the hours since the last
\* success
checkSystemHealthCountOnly(failures) ==
    IF failures >= maxConsecutiveFailures THEN FALSE
    ELSE systemHealthy

\* the check as it would be if the failure count had to exceed the maximum
checkSystemHealthStrict(failures) ==
    IF failures > maxConsecutiveFailures THEN FALSE
    ELSE IF now - lastSuccessfulRefresh >= maxHoursWithoutRefresh * 60 * 60 THEN FALSE
    ELSE systemHealthy

\* the value of systemHealthy after checkSystemHealth() with the given
\* failure count
checkSystemHealth(failures) ==
    IF failures >= maxConsecutiveFailures THEN FALSE
    ELSE IF now - lastSuccessfulRefresh >= maxHoursWithoutRefresh * 60 * 60 THEN FALSE
    ELSE systemHealthy

\* a wake cycle whose schedule refresh (syncNTP, fetchScheduleViaMQTT)
\* failed with all retries exhausted: the feed before the last attempt
\* (part_007:599), consecutiveFailures++, checkSystemHealth (part_007:616-626),
\* then the LED update (part_007:663)
RefreshFailed ==
    /\ Running
    /\ consecutiveFailures < MaxFailureCount
    /\ feedWatchdogIfHealthy
    /\ consecutiveFailures' = consecutiveFailures + 1
    /\ systemHealthy' = checkSystemHealth(consecutiveFailures + 1)
    /\ unhealthyAt' = IF systemHealthy /\ ~checkSystemHealth(consecutiveFailures + 1)
                        THEN now ELSE unhealthyAt
    /\ ledUpdate' = updateLEDsFromSchedule
    /\ UNCHANGED << watchdog, fatalSleeps, partitionConfirmed, consoleVars, scheduleVars, spanVars, telemetryVars >>
    /\ UNCHANGED << pc, bootInfo, now, lastSuccessfulRefresh, windowVars, connState,
                    pauseVars, localVars, lastReply, lastLog, lastIn, flashVars,
                    oddSent >>

\* the refresh as it would be if a success restored health
RefreshSucceededHeals ==
    /\ Running
    /\ consecutiveFailures' = 0
    /\ lastSuccessfulRefresh' = now
    /\ systemHealthy' = TRUE
    /\ feedWatchdogIfHealthy
    /\ ledUpdate' = updateLEDsFromSchedule
    /\ UNCHANGED << watchdog, fatalSleeps, unhealthyAt, partitionConfirmed, consoleVars, scheduleVars, spanVars, telemetryVars >>
    /\ UNCHANGED << pc, bootInfo, now, windowVars, connState,
                    pauseVars, localVars, lastReply, lastLog, lastIn, flashVars,
                    oddSent >>

\* a wake cycle whose schedule refresh succeeded: the feed before the
\* attempt (part_007:599), the success branch (part_007:627-646), then the
\* LED update (part_007:663)
RefreshSucceeded ==
    /\ Running
    /\ feedWatchdogIfHealthy
    /\ consecutiveFailures' = 0
    /\ lastSuccessfulRefresh' = now
    /\ ledUpdate' = updateLEDsFromSchedule
    /\ UNCHANGED << watchdog, fatalSleeps, unhealthyAt, partitionConfirmed, consoleVars, scheduleVars, spanVars, telemetryVars >>
    /\ UNCHANGED << pc, bootInfo, now, systemHealthy, windowVars, connState,
                    pauseVars, localVars, lastReply, lastLog, lastIn, flashVars,
                    oddSent >>

(***************************************************************************)
(* otaServerLoop (part_002:154-215)                                        *)
(***************************************************************************)
\* the turn as it would be if a second server loop took it while the first
\* is in a session
ServerPollAnytime(listenOk) ==
    /\ Running
    /\ OTAIsEnabled
    /\ IF OTAIsEnabledResult /\ listenOk
         THEN pc' = "listening" /\ connState' = "listen"
         ELSE pc' = "idle" /\ connState' = "closed"
    /\ UNCHANGED << deviceVars, pauseVars, localVars,
                    lastReply, lastLog, lastIn, flashVars, oddSent >>

\* one turn of the wait for the window, then conn.Abort and ListenTCP
ServerPoll(listenOk) ==
    /\ pc = "idle"
    /\ OTAIsEnabled
    /\ IF OTAIsEnabledResult /\ listenOk
         THEN pc' = "listening" /\ connState' = "listen"
         ELSE pc' = "idle" /\ connState' = "closed"
    /\ UNCHANGED << deviceVars, pauseVars, localVars,
                    lastReply, lastLog, lastIn, flashVars, oddSent >>

\* the end of the wait as it would be without the check of the window
ListenWaitNoCheck(connected) ==
    /\ pc = "listening"
    /\ UNCHANGED windowVars
    /\ IF connected
         THEN /\ pc' = "handshake"
              /\ connState' = "established"
              /\ telemetryPaused' = TRUE
              /\ pauseCall' = IF sendingWg = 0 THEN "returned" ELSE "waiting"
              /\ bindicatorPaused' = (sendingWg = 0)
              /\ lastLog' = "ota:pausing-background-tasks"
              /\ lastReply' = NoReply
              /\ lastIn' = NoInput
         ELSE /\ pc' = "idle"
              /\ connState' = "closed"
              /\ UNCHANGED << pauseVars, lastLog, lastReply, lastIn >>
    /\ UNCHANGED << deviceVars, localVars, flashVars, oddSent >>

\* the wait for a client ends: a client connected, or 60 s passed, or the
\* window closed; a session starts only if OTAIsEnabled() is still true and
\* the connection is synchronized.  The session begins with telemetry.Pause(),
\* which sets paused and waits in sendingWg.Wait() (telemetry.go:386-393);
\* when it has returned the session pauses the bindicator (part_002:219-232).
ListenWait(connected) ==
    /\ pc = "listening"
    /\ OTAIsEnabled
    /\ IF OTAIsEnabledResult /\ connected
         THEN /\ pc' = "handshake"
              /\ connState' = "established"
              /\ telemetryPaused' = TRUE
              /\ pauseCall' = IF sendingWg = 0 THEN "returned" ELSE "waiting"
              /\ bindicatorPaused' = (sendingWg = 0)
              /\ lastLog' = "ota:pausing-background-tasks"
              /\ lastReply' = NoReply
              /\ lastIn' = NoInput
         ELSE /\ pc' = "idle"
              /\ connState' = "closed"
              /\ lastLog' = IF OTAIsEnabledResult THEN lastLog
                                                 ELSE "ota:disabled-while-waiting"
              /\ UNCHANGED << pauseVars, lastReply, lastIn >>
    /\ UNCHANGED << deviceVars, localVars, flashVars, oddSent >>

\* after handleOTASession returned: close the connection, OTADisable()
ServerCleanup ==
    /\ pc = "cleanup"
    /\ pc' = "idle"
    /\ connState' = "closed"
    /\ OTADisable
    /\ UNCHANGED << deviceVars, pauseVars, localVars,
                    lastReply, lastLog, lastIn, flashVars, oddSent >>

(***************************************************************************)
(* Package ota: flash primitives (docs/arp-reuse.md:398-569)               *)
(***************************************************************************)
\* EraseSector(offset): ota_flash_erase returns without erasing when a ROM
\* lookup fails; the Go wrapper returns nil in either case
EraseSector(offset, romOk) == "nil"

\* WriteChunk(offset, data): nil for empty data, else ota_flash_write, which
\* returns without programming when a ROM lookup fails; nil in either case
WriteChunk(offset, len, romOk) == "nil"

\* does WriteChunk reach the flash primitive at all
WriteChunkCalls(len) == len # 0

\* raw offsets of the sectors a write of len bytes at off touches
WriteSectors(off, len) ==
    { s * SectorSize : s \in (off \div SectorSize)..((off + len - 1) \div SectorSize) }

(***************************************************************************)
(* handleOTASession (part_002:219-463)                                     *)
(***************************************************************************)
\* the return as it would be without the deferred function
SessionReturnKeepsPaused(log) ==
    /\ pc' = "cleanup"
    /\ UNCHANGED pauseVars
    /\ lastLog' = log
    /\ targetPartition' = NoPartition
    /\ partitionOffset' = 0
    /\ erasedSectors' = {}
    /\ totalBytes' = 0
    /\ hasher' = 0
    /\ chunkNum' = 0
    /\ waited' = 0
    /\ expectedHash' = << >>
    /\ actualHashHex' = << >>
    /\ flashErases' = {}
    /\ reErased' = {}
    /\ dirtyWrites' = {}
    /\ oddSent' = 0

\* return from handleOTASession: the deferred function resumes the paused
\* tasks, the locals of the session are gone
SessionReturn(log) ==
    /\ pc' = "cleanup"
    /\ bindicatorPaused' = FALSE
    /\ telemetryPaused' = FALSE
    /\ pauseCall' = "none"
    /\ lastLog' = log
    /\ targetPartition' = NoPartition
    /\ partitionOffset' = 0
    /\ erasedSectors' = {}
    /\ totalBytes' = 0
    /\ hasher' = 0
    /\ chunkNum' = 0
    /\ waited' = 0
    /\ expectedHash' = << >>
    /\ actualHashHex' = << >>
    /\ flashErases' = {}
    /\ reErased' = {}
    /\ dirtyWrites' = {}
    /\ oddSent' = 0

NoStepOps ==
    /\ stepErases' = {}
    /\ stepWrite' = NoWrite
    /\ stepHashed' = 0
    /\ flashFault' = "none"

\* what the client may send first: data is what the first read returned,
\* err is its error (timeout or EOF).  "split" is a client whose "OTA\n"
\* arrives in two segments: readWithTimeout returns the bytes of the first
\* read that has data (part_002:466-489).
HandshakeInputs ==
    { [kind |-> "OTA", data |-> << "O", "T", "A", "\n" >>, err |-> FALSE],
      [kind |-> "OTA3", data |-> << "O", "T", "A" >>, err |-> FALSE],
      [kind |-> "short", data |-> << "O", "T" >>, err |-> FALSE],
      [kind |-> "split", data |-> << "O", "T" >>, err |-> FALSE],
      [kind |-> "bad", data |-> << "G", "E", "T", " ", "/" >>, err |-> FALSE],
      [kind |-> "timeout", data |-> << >>, err |-> TRUE] }

\* the wait for "OTA\n", READY, and the preparation of the transfer
Handshake(in) ==
    /\ pc = "handshake"
    /\ pauseCall = "returned"
    /\ lastIn' = [kind |-> in.kind, len |-> Len(in.data), sent |-> "none", n2 |-> 0]
    /\ NoStepOps
    /\ IF in.err \/ Len(in.data) < 3
         THEN /\ SessionReturn("ota:no-init")
              /\ UNCHANGED lastReply
         ELSE IF SubSeq(in.data, 1, 3) # << "O", "T", "A" >>
         THEN /\ SessionReturn("ota:bad-init")
              /\ UNCHANGED lastReply
         ELSE /\ pc' = "receiving"
              /\ lastReply' = [kind |-> "READY", n |-> otaMaxFwSize]
              /\ lastLog' = "ota:target"
              /\ targetPartition' = GetTargetPartition
              /\ partitionOffset' = GetPartitionOffset(GetTargetPartition)
              /\ erasedSectors' = {}
              /\ totalBytes' = 0
              /\ hasher' = 0
              /\ chunkNum' = 0
              /\ waited' = 0
              /\ expectedHash' = << >>
              /\ actualHashHex' = << >>
              /\ flashErases' = {}
              /\ reErased' = {}
              /\ dirtyWrites' = {}
              /\ oddSent' = 0
              /\ UNCHANGED pauseVars
    /\ UNCHANGED << deviceVars, windowVars, connState >>

\* a turn of the receive loop feeds the watchdog (part_002:278), then
\* readExactly of the 4 header bytes failed (timeout or EOF)
HeaderTimeout ==
    /\ pc = "receiving"
    /\ lastIn' = [kind |-> "header-timeout", len |-> 0, sent |-> "none", n2 |-> 0]
    /\ NoStepOps
    /\ SessionReturn("ota:read-timeout")
    /\ feedWatchdogIfHealthy
    /\ UNCHANGED << deviceVarsButFed, windowVars, connState, lastReply >>

\* (totalBytes + chunkLen - 1) / SectorSize in uint32 arithmetic
LastByteSector(sum) ==
    IF sum = 0 THEN MaxUint32Sector ELSE (sum - 1) \div SectorSize

Min(a, b) == IF a < b THEN a ELSE b

\* the erase loop as it would be if it erased only the sector the chunk
\* starts in
SectorsToEraseStartOnly(chunkLen) ==
    { sector \in { totalBytes \div SectorSize } :
        sector < NumErasedSectors /\ sector \notin erasedSectors }

\* the sectors the erase loop erases for a chunk of chunkLen bytes: those of
\* startSector..endSector with sector < len(erasedSectors) not yet erased
SectorsToErase(chunkLen) ==
    LET startSector == totalBytes \div SectorSize
        endSector == LastByteSector(totalBytes + chunkLen)
    IN  { sector \in startSector..Min(endSector, NumErasedSectors - 1) :
            sector \notin erasedSectors }

\* chunkLen > uint32(len(otaChunk))
ChunkTooLarge(chunkLen) == chunkLen > otaBufSize

\* the cumulative check as it would be if it left the new chunk out
FirmwareTooLargeBeforeChunk(chunkLen) == totalBytes > otaMaxFwSize

\* totalBytes+chunkLen > otaMaxFwSize
FirmwareTooLarge(chunkLen) == totalBytes + chunkLen > otaMaxFwSize

\* chunk lengths a client sends
HugeLen == 1000 * otaMaxFwSize
\* otaPush sends an image in chunks of otaChunkSize, the last chunk being
\* what remains (cli/main.go:433-470)
LastChunkLen == IF ImageSize % otaChunkSize = 0 THEN otaChunkSize
                ELSE ImageSize % otaChunkSize
ImageChunks == (ImageSize + otaChunkSize - 1) \div otaChunkSize
ChunkLens == { 0, 1, LastChunkLen, otaChunkSize, otaBufSize, otaBufSize + 1, HugeLen }

\* the decimal digits writeOTAInt puts on the line
DecimalDigits == << "0", "1", "2", "3", "4", "5", "6", "7", "8", "9" >>

RECURSIVE writeOTAIntLoop(_)
\* writeOTAInt: "for n > 0 { i--; buf[i] = '0' + n%10; n /= 10 }"
writeOTAIntLoop(n) ==
    IF n > 0 THEN writeOTAIntLoop(n \div 10) \o << DecimalDigits[(n % 10) + 1] >>
    ELSE << >>

\* writeOTAInt(conn, n): what it writes (part_002:526-539)
writeOTAInt(n) ==
    IF n = 0 THEN << "0" >> ELSE writeOTAIntLoop(n)

\* the reply as it would be if it carried the length of the chunk
AckReplyOfChunk(sum, chunkLen) ==
    [kind |-> "ACK", n |-> chunkLen]

\* "totalBytes += chunkLen" and the reply "ACK <totalBytes>" (part_002:448-455)
AckReply(sum, chunkLen) ==
    [kind |-> "ACK", n |-> sum + chunkLen]

\* one turn of the receive loop on a chunk header: the length checks, the
\* read of the payload, hash, erase on demand, write, ACK.
\* payloadOk: the payload arrived in time (readExactly of zero bytes cannot
\* fail); fault: the flash primitive whose ROM lookup fails in this turn.
ReceiveChunk(chunkLen, payloadOk, fault) ==
    /\ pc = "receiving"
    /\ chunkLen # otaChunkSize => oddSent < MaxOddChunks
    /\ payloadOk \/ chunkLen > 0
    /\ lastIn' = [kind |-> IF ~ChunkTooLarge(chunkLen) /\ ~FirmwareTooLarge(chunkLen)
                               /\ ~payloadOk
                             THEN "payload-timeout" ELSE "chunk",
                   len |-> chunkLen, sent |-> "none", n2 |-> 0]
    /\ IF ChunkTooLarge(chunkLen)
         THEN /\ lastReply' = [kind |-> "ERROR chunk too large", n |-> 0]
              /\ NoStepOps
              /\ SessionReturn("ota:chunk-too-large")
         ELSE IF FirmwareTooLarge(chunkLen)
         THEN /\ lastReply' = [kind |-> "ERROR firmware too large", n |-> 0]
              /\ NoStepOps
              /\ SessionReturn("ota:firmware-too-large")
         ELSE IF ~payloadOk
         THEN /\ UNCHANGED lastReply
              /\ NoStepOps
              /\ SessionReturn("ota:chunk-read-failed")
         ELSE LET flashOffset == partitionOffset + totalBytes
                  toErase == SectorsToErase(chunkLen)
                  offsets == { partitionOffset + sector * SectorSize : sector \in toErase }
                  eraseErr == \E o \in offsets : EraseSector(o, fault # "erase") # "nil"
                  writeErr == WriteChunk(flashOffset, chunkLen, fault # "write") # "nil"
                  written == IF WriteChunkCalls(chunkLen)
                               THEN WriteSectors(flashOffset, chunkLen) ELSE {}
              IN  /\ stepHashed' = chunkLen
                  /\ stepErases' = offsets
                  /\ IF eraseErr
                       THEN /\ lastReply' = [kind |-> "ERROR erase failed", n |-> 0]
                            /\ stepWrite' = NoWrite
                            /\ flashFault' = "none"
                            /\ SessionReturn("ota:erase-failed")
                       ELSE IF writeErr
                       THEN /\ lastReply' = [kind |-> "ERROR write failed", n |-> 0]
                            /\ stepWrite' = NoWrite
                            /\ flashFault' = "none"
                            /\ SessionReturn("ota:write-failed")
                       ELSE /\ flashFault' =
                                 IF fault = "erase" /\ offsets # {} THEN "erase"
                                 ELSE IF fault = "write" /\ WriteChunkCalls(chunkLen)
                                   THEN "write" ELSE "none"
                            /\ hasher' = hasher + chunkLen
                            /\ erasedSectors' = erasedSectors \cup toErase
                            /\ reErased' = reErased \cup (offsets \cap flashErases)
                            /\ flashErases' = flashErases \cup offsets
                            /\ stepWrite' = IF WriteChunkCalls(chunkLen)
                                              THEN [off |-> flashOffset, len |-> chunkLen]
                                              ELSE NoWrite
                            /\ dirtyWrites' = dirtyWrites \cup
                                                (written \ (flashErases \cup offsets))
                            /\ totalBytes' = totalBytes + chunkLen
                            /\ chunkNum' = chunkNum + 1
                            /\ waited' = 0
                            /\ oddSent' = IF chunkLen # otaChunkSize
                                            THEN oddSent + 1 ELSE oddSent
                            /\ lastReply' = AckReply(totalBytes, chunkLen)
                            /\ UNCHANGED << pc, pauseVars, lastLog, targetPartition,
                                            partitionOffset, expectedHash, actualHashHex >>
    /\ feedWatchdogIfHealthy
    /\ UNCHANGED << deviceVarsButFed, windowVars, connState >>

(***************************************************************************)
(* The DONE line and the reboot (part_002:287-348)                         *)
(***************************************************************************)
ToUpper(c) ==
    CASE c = "a" -> "A" [] c = "b" -> "B" [] c = "c" -> "C"
      [] c = "d" -> "D" [] c = "e" -> "E" [] c = "f" -> "F"
      [] OTHER -> c

\* a 64-digit hex string that is not hex
WrongDigest(hex) ==
    [k \in 1..Len(hex) |->
        IF k = 1 THEN (IF hex[1] = "0" THEN "1" ELSE "0") ELSE hex[k]]

\* what a client sends after the four bytes DONE, given the lower-case hex
\* digest of the bytes it sent
DoneKinds == { "lower", "upper", "wrong", "none" }
DoneTail(sent, hex) ==
    CASE sent = "lower" -> << " " >> \o hex \o << "\n" >>
      [] sent = "upper" -> << " " >> \o [k \in 1..Len(hex) |-> ToUpper(hex[k])] \o << "\n" >>
      [] sent = "wrong" -> << " " >> \o WrongDigest(hex) \o << "\n" >>
      [] OTHER -> << "\n" >>

\* bytes the read of the rest of the DONE line may return: nothing (timeout),
\* the first byte, half of the line, or the whole line
DoneReads == { 0, 1, HashHexLen \div 2, HashHexLen + 2 }

\* Parse expected hash (DONE <64-char-hex>\n) from the line as read
ParseExpectedHash(fullCmd) ==
    IF Len(fullCmd) > 5 THEN trimSpace(SubSeq(fullCmd, 6, Len(fullCmd))) ELSE << >>

\* the comparison as it would be if it folded letter case
HashMismatchFoldCase(expected, actual) ==
    /\ expected # << >>
    /\ [k \in 1..Len(expected) |-> ToUpper(expected[k])]
         # [k \in 1..Len(actual) |-> ToUpper(actual[k])]

\* expectedHash != "" && expectedHash != actualHashHex
HashMismatch(expected, actual) == expected # << >> /\ expected # actual

\* the header was DONE: read the rest of the line (readWithTimeout returns
\* the n2 bytes of the first read that has data, 0 on timeout; its error is
\* dropped), compare, reply.  sent is what the client put on the line.
ReceiveDone ==
    /\ pc = "receiving"
    /\ chunkNum <= MaxImageChunks \/ totalBytes = otaMaxFwSize
    /\ LET actual == formatHashHex(Sha256Sum(hasher))
       IN  \E sent \in DoneKinds :
             LET tail == DoneTail(sent, actual)
             IN  \E n2 \in DoneReads :
                   /\ n2 <= Len(tail)
                   /\ LET fullCmd == << "D", "O", "N", "E" >> \o SubSeq(tail, 1, n2)
                          expected == ParseExpectedHash(fullCmd)
                      IN  /\ lastIn' = [kind |-> "DONE", len |-> Len(tail),
                                        sent |-> sent, n2 |-> n2]
                          /\ NoStepOps
                          /\ IF HashMismatch(expected, actual)
                               THEN /\ lastReply' = [kind |-> "ERROR hash mismatch", n |-> 0]
                                    /\ SessionReturn("ota:hash-mismatch")
                               ELSE /\ lastReply' = [kind |-> "VERIFIED", n |-> 0]
                                    /\ pc' = "verified"
                                    /\ lastLog' = "ota:complete"
                                    /\ expectedHash' = expected
                                    /\ actualHashHex' = actual
                                    /\ waited' = 0
                                    /\ UNCHANGED << pauseVars, targetPartition,
                                                    partitionOffset, erasedSectors,
                                                    totalBytes, hasher, chunkNum,
                                                    flashErases, reErased,
                                                    dirtyWrites, oddSent >>
    /\ feedWatchdogIfHealthy
    /\ UNCHANGED << deviceVarsButFed, windowVars, connState >>

\* the step as it would be if the return of the reboot call were not logged
RebootToPartitionSilent(rebootOk) ==
    /\ pc = "verified"
    /\ IF rebootOk
         THEN Boot(BootInfoOf(targetPartition))
         ELSE /\ SessionReturn(lastLog)
              /\ NoStepOps
              /\ UNCHANGED << deviceVars, windowVars, connState, lastReply, lastIn >>

\* after VERIFIED: telemetry.Resume(), Flush, ota.RebootToPartition(target).
\* rebootOk: the ROM reboot call succeeded and the device restarts in the
\* target partition; otherwise the call returns and the session ends.
RebootToPartition(rebootOk) ==
    /\ pc = "verified"
    /\ IF rebootOk
         THEN Boot(BootInfoOf(targetPartition))
         ELSE /\ SessionReturn("ota:reboot-failed")
              /\ NoStepOps
              /\ UNCHANGED << deviceVars, windowVars, connState, lastReply, lastIn >>

\* the longest the session waits in the reads of its current state: the
\* handshake read, or the header read followed by a payload read or by the
\* read of the rest of the DONE line
SessionWaitLimit ==
    IF pc = "handshake" THEN otaInitTimeout
    ELSE otaReadTimeout
           + (IF otaDoneTimeout > otaReadTimeout THEN otaDoneTimeout ELSE otaReadTimeout)

\* the second as it would pass if the packet pump did not feed the watchdog
WaitTickNoPump ==
    /\ pc \in { "handshake", "receiving" }
    /\ pauseCall = "returned"
    /\ waited < SessionWaitLimit
    /\ now < MaxWaitSeconds
    /\ watchdog = "running" => now + 1 <= lastFed + watchdogTimeout
    /\ now' = now + 1
    /\ waited' = waited + 1
    /\ UNCHANGED << pc, bootInfo, healthVars, watchdog, lastFed, fatalSleeps, unhealthyAt,
                    partitionConfirmed, consoleVars, scheduleVars, spanVars, ledUpdate, telemetryVars, windowVars,
                    connState, pauseVars, targetPartition, partitionOffset,
                    erasedSectors, totalBytes, hasher, chunkNum, expectedHash,
                    actualHashHex, lastReply, lastLog, lastIn, flashVars, oddSent >>

\* a second passes while the session waits in readWithTimeout or readExactly:
\* the read loop sleeps 10 ms a turn and feeds nothing (part_002:466-518);
\* meanwhile loopForeverStack runs and calls feedWatchdogIfHealthy() every
\* 100 turns of pollTime (part_007:752-766).  A running watchdog that was not
\* fed for watchdogTimeout resets the device before the next second passes.
WaitTick ==
    /\ pc \in { "handshake", "receiving" }
    /\ pauseCall = "returned"
    /\ waited < SessionWaitLimit
    /\ now < MaxWaitSeconds
    /\ watchdog = "running" => now + 1 <= lastFed + watchdogTimeout
    /\ now' = now + 1
    /\ waited' = waited + 1
    /\ feedWatchdogIfHealthy
    /\ UNCHANGED << pc, bootInfo, healthVars, watchdog, fatalSleeps, unhealthyAt,
                    partitionConfirmed, consoleVars, scheduleVars, spanVars, ledUpdate, telemetryVars, windowVars,
                    connState, pauseVars, targetPartition, partitionOffset,
                    erasedSectors, totalBytes, hasher, chunkNum, expectedHash,
                    actualHashHex, lastReply, lastLog, lastIn, flashVars, oddSent >>

(***************************************************************************)
(* Package telemetry: spans (telemetry.go:277-361, 487-526)                *)
(***************************************************************************)
\* what a span operation leaves alone
SpanUnchanged ==
    UNCHANGED << pc, bootInfo, now, healthVars, watchdog, lastFed, fatalSleeps,
                 unhealthyAt, partitionConfirmed, ledUpdate, telemetryVars,
                 windowVars, connState, pauseVars, localVars, lastReply, lastLog,
                 lastIn, flashVars, oddSent, consoleVars, scheduleVars >>

\* the slots that are not active
InactiveSlots == { i \in SpanSlots : ~SpanQueue[i].Active }

\* StartSpan(): the first slot that is not active, or with all slots active
\* the slot at SpanHead, becomes a new active span (telemetry.go:277-332);
\* while telemetry is paused the call returns -1 and changes nothing
StartSpan ==
    /\ Running
    /\ ~telemetryPaused
    /\ LET idx == IF InactiveSlots # {}
                    THEN CHOOSE i \in InactiveSlots : \A j \in InactiveSlots : i <= j
                    ELSE SpanHead
       IN  /\ SpanHead' = IF InactiveSlots # {} THEN SpanHead
                                                ELSE (SpanHead + 1) % SpanQueueSize
           /\ SpanQueue' = [SpanQueue EXCEPT ![idx] =
                               [Active |-> TRUE, Ended |-> FALSE, Flushed |-> FALSE]]
    /\ UNCHANGED SpanCount
    /\ SpanUnchanged

\* EndSpan(idx): an active span gets its end time and is counted as
\* completed (telemetry.go:336-361)
EndSpan(idx) ==
    /\ Running
    /\ idx \in SpanSlots
    /\ SpanQueue[idx].Active
    /\ SpanQueue' = [SpanQueue EXCEPT ![idx] =
                        [Active |-> FALSE, Ended |-> TRUE, Flushed |-> FALSE]]
    /\ SpanCount' = IF SpanCount < SpanQueueSize THEN SpanCount + 1 ELSE SpanCount
    /\ UNCHANGED SpanHead
    /\ SpanUnchanged

\* flushSpans(): BuildSpansJSON() writes every slot that is not active and
\* has an end time into the payload, and the count of completed spans is
\* cleared (telemetry.go:487-505, json.go:282-330)
flushSpans ==
    /\ Running
    /\ SpanCount # 0
    /\ ~telemetryPaused
    /\ SpanQueue' = [i \in SpanSlots |->
                        IF ~SpanQueue[i].Active /\ SpanQueue[i].Ended
                          THEN [SpanQueue[i] EXCEPT !.Flushed = TRUE]
                          ELSE SpanQueue[i]]
    /\ SpanCount' = 0
    /\ UNCHANGED SpanHead
    /\ SpanUnchanged

(***************************************************************************)
(* The schedule response (parse.go, part_007:54-217)                       *)
(***************************************************************************)
\* BinType
BinUnknown == "BinUnknown"
BinGreen == "BinGreen"
BinBlack == "BinBlack"
BinBrown == "BinBrown"

\* the bytes '0' .. '9' and their values
DigitBytes == { "0", "1", "2", "3", "4", "5", "6", "7", "8", "9" }
DigitOf(c) ==
    CASE c = "0" -> 0 [] c = "1" -> 1 [] c = "2" -> 2 [] c = "3" -> 3
      [] c = "4" -> 4 [] c = "5" -> 5 [] c = "6" -> 6 [] c = "7" -> 7
      [] c = "8" -> 8 [] c = "9" -> 9

\* atoi2(): 0 for fewer than two bytes or a byte that is no digit
\* (parse.go:77-88)
atoi2(s) ==
    IF Len(s) < 2 THEN 0
    ELSE IF s[1] \notin DigitBytes \/ s[2] \notin DigitBytes THEN 0
    ELSE DigitOf(s[1]) * 10 + DigitOf(s[2])

\* atoi4() (parse.go:90-103)
atoi4(s) ==
    IF Len(s) < 4 THEN 0
    ELSE IF \E i \in 1 .. 4 : s[i] \notin DigitBytes THEN 0
    ELSE DigitOf(s[1]) * 1000 + DigitOf(s[2]) * 100 + DigitOf(s[3]) * 10 + DigitOf(s[4])

\* parseBinType(): the type is read from the first byte, the length and,
\* after a B, the second byte (parse.go:105-129)
parseBinType(s) ==
    IF Len(s) = 0 THEN BinUnknown
    ELSE IF s[1] \in { "G", "g" }
           THEN IF Len(s) >= 5 THEN BinGreen ELSE BinUnknown
    ELSE IF s[1] \in { "B", "b" }
           THEN IF Len(s) >= 5
                  THEN IF s[2] \in { "L", "l" } THEN BinBlack
                       ELSE IF s[2] \in { "R", "r" } THEN BinBrown
                       ELSE BinUnknown
                  ELSE BinUnknown
    ELSE BinUnknown

\* the position after the digits of the timestamp (parse.go:19-24);
\* positions count from 0 as in the source
RECURSIVE TimestampEnd(_, _)
TimestampEnd(data, pos) ==
    IF pos < Len(data) /\ data[pos + 1] \in DigitBytes
      THEN TimestampEnd(data, pos + 1)
      ELSE pos

\* the end of the entry that starts at pos: the next comma or the end of
\* the data (parse.go:33-36)
RECURSIVE EntryEnd(_, _)
EntryEnd(data, entryEnd) ==
    IF entryEnd < Len(data) /\ data[entryEnd + 1] # ","
      THEN EntryEnd(data, entryEnd + 1)
      ELSE entryEnd

\* the index of the first colon of an entry, or -1 (parse.go:42-48)
ColonIdx(entry) ==
    LET colons == { i \in 1 .. Len(entry) : entry[i] = ":" }
    IN  IF colons = {} THEN 0 - 1
        ELSE (CHOOSE i \in colons : \A j \in colons : i <= j) - 1

\* what an entry adds to jobStorage: a job, or nothing (parse.go:39-67)
ParseEntry(entry) ==
    IF Len(entry) >= 11 /\ ColonIdx(entry) = 10
      THEN LET year == atoi4(SubSeq(entry, 1, 4))
               month == atoi2(SubSeq(entry, 6, 7))
               day == atoi2(SubSeq(entry, 9, 10))
               bt == parseBinType(SubSeq(entry, 12, Len(entry)))
           IN  IF /\ bt # BinUnknown
                  /\ year > 0
                  /\ month > 0 /\ month <= 12
                  /\ day > 0 /\ day <= 31
                 THEN << [Year |-> year, Month |-> month, Day |-> day, Bin |-> bt] >>
                 ELSE << >>
      ELSE << >>

\* the loop over the entries (parse.go:31-72)
RECURSIVE ParseEntries(_, _, _)
ParseEntries(data, pos, stored) ==
    IF pos < Len(data) /\ Len(stored) < maxJobs
      THEN LET entryEnd == EntryEnd(data, pos)
           IN  ParseEntries(data, entryEnd + 1,
                            stored \o ParseEntry(SubSeq(data, pos + 1, entryEnd)))
      ELSE stored

\* the jobs that parseScheduleResponse(data) stores after clearJobs()
\* (parse.go:11-75)
ParsedJobs(data) ==
    IF Len(data) = 0 THEN << >>
    ELSE LET digitsEnd == TimestampEnd(data, 0)
             pos == IF digitsEnd < Len(data) /\ data[digitsEnd + 1] = ","
                      THEN digitsEnd + 1 ELSE digitsEnd
         IN  ParseEntries(data, pos, << >>)

\* entries that a response carries: three collections, a word that is no
\* entry, a bin type the firmware does not know, and an entry with other
\* separators in its date and a bin type that is none of the three
EntryBlack == << "2", "0", "2", "6", "-", "0", "1", "-", "1", "7", ":", "B", "L", "A", "C", "K" >>
EntryGreen == << "2", "0", "2", "6", "-", "0", "3", "-", "0", "1", ":", "g", "r", "e", "e", "n" >>
EntryBrown == << "2", "0", "2", "6", "-", "0", "2", "-", "1", "4", ":", "B", "R", "O", "W", "N" >>
EntryInvalid == << "i", "n", "v", "a", "l", "i", "d" >>
EntryRed == << "2", "0", "2", "6", "-", "0", "1", "-", "1", "5", ":", "R", "E", "D" >>
EntryGlass == << "2", "0", "2", "6", "x", "0", "1", "x", "1", "5", ":", "G", "L", "A", "S", "S" >>
EntryTokens == { EntryBlack, EntryGreen, EntryBrown, EntryInvalid, EntryRed, EntryGlass }

\* the entry that fills a response
EntryPad == << "2", "0", "2", "6", "-", "0", "1", "-", "1", "5", ":", "B", "L", "A", "C", "K" >>

\* the timestamp at the start of a response
ResponseTimestamp == << "1", "7" >>

\* the heads of the responses: up to MaxHeadEntries entries of any kind
ResponseHeads == UNION { [1 .. n -> EntryTokens] : n \in 0 .. MaxHeadEntries }

\* the bytes of a response with the given entries
RECURSIVE ResponseBytes(_)
ResponseBytes(entries) ==
    IF entries = << >> THEN ResponseTimestamp
    ELSE ResponseBytes(SubSeq(entries, 1, Len(entries) - 1))
           \o << "," >> \o entries[Len(entries)]

\* a response: its entries as the broker sent them, and its bytes
ResponseOf(entries) == [entries |-> entries, bytes |-> ResponseBytes(entries)]

\* the responses of the broker: a head and up to MaxPadEntries valid entries
ScheduleResponses ==
    { ResponseOf(head \o [i \in 1 .. pad |-> EntryPad]) :
        head \in ResponseHeads, pad \in 0 .. MaxPadEntries }

\* the responses that follow the first response of a boot
LaterResponses == { ResponseOf(<< >>), ResponseOf(<< EntryGreen >>) }

\* what the schedule leaves alone
ScheduleUnchanged ==
    UNCHANGED << pc, bootInfo, now, healthVars, watchdog, lastFed, fatalSleeps,
                 unhealthyAt, partitionConfirmed, ledUpdate, telemetryVars,
                 windowVars, connState, pauseVars, localVars, lastReply, lastLog,
                 lastIn, flashVars, oddSent, consoleVars, spanVars >>

\* fetchScheduleViaMQTT(): a response of the broker is read into
\* responseBuf (part_007:185, 207-217)
ScheduleResponse(data) ==
    /\ Running
    /\ \/ schedulePc = "none"
       \/ schedulePc = "parsed" /\ data \in LaterResponses
    /\ scheduleData' = data
    /\ schedulePc' = "received"
    /\ UNCHANGED << jobStorage, jobCount >>
    /\ ScheduleUnchanged

\* parseScheduleResponse(responseBuf[:responseLen]) (part_007:188,
\* parse.go:11-75)
parseScheduleResponse ==
    /\ Running
    /\ schedulePc = "received"
    /\ jobStorage' = ParsedJobs(scheduleData.bytes)
    /\ jobCount' = Len(ParsedJobs(scheduleData.bytes))
    /\ schedulePc' = "parsed"
    /\ UNCHANGED scheduleData
    /\ ScheduleUnchanged

(***************************************************************************)
(* The debug console: lockout, authentication, commands (part_003)         *)
(***************************************************************************)
\* the lockout as it would be if it began one failure later
getLockoutDurationLate ==
    IF authFailures > 10 THEN 5 * 60
    ELSE IF authFailures > 5 THEN 30
    ELSE IF authFailures > 3 THEN 5
    ELSE 0

\* getLockoutDuration(), in seconds (part_003:729-741)
getLockoutDuration ==
    IF authFailures >= 10 THEN 5 * 60
    ELSE IF authFailures >= 5 THEN 30
    ELSE IF authFailures >= 3 THEN 5
    ELSE 0

\* checkLockout(): time.Since(lastFailureTime) < lockout (part_003:745-751)
checkLockout ==
    /\ getLockoutDuration # 0
    /\ now - lastFailureTime < getLockoutDuration

\* what a console action leaves alone
ConsoleUnchanged ==
    UNCHANGED << pc, bootInfo, now, healthVars, watchdog, lastFed, fatalSleeps,
                 unhealthyAt, partitionConfirmed, ledUpdate, telemetryVars,
                 windowVars, connState, pauseVars, localVars, lastReply, lastLog,
                 lastIn, flashVars, oddSent, scheduleVars, spanVars >>

\* consoleServer: in a lockout it logs, sleeps a second and starts its loop
\* again without listening (part_003:100-106)
ConsoleLockedOut ==
    /\ Running
    /\ consolePc = "check"
    /\ checkLockout
    /\ consoleLog' = "console:lockout"
    /\ UNCHANGED << authFailures, lastFailureTime, consolePc >>
    /\ ConsoleUnchanged

\* consoleServer: out of a lockout it listens on the console port
\* (part_003:108-114)
ConsoleListen(listenOk) ==
    /\ Running
    /\ consolePc = "check"
    /\ ~checkLockout
    /\ consolePc' = IF listenOk THEN "listening" ELSE "check"
    /\ consoleLog' = IF listenOk THEN consoleLog ELSE "console:listen-failed"
    /\ UNCHANGED << authFailures, lastFailureTime >>
    /\ ConsoleUnchanged

\* consoleServer: the wait for a connection ends with a connection or
\* without one (part_003:116-128)
ConsoleAccept(connected) ==
    /\ Running
    /\ consolePc = "listening"
    /\ consolePc' = IF connected THEN "auth" ELSE "check"
    /\ consoleLog' = IF connected THEN "console:connected" ELSE consoleLog
    /\ UNCHANGED << authFailures, lastFailureTime >>
    /\ ConsoleUnchanged

\* what the client does at the password prompt
AuthOutcomes == { "match", "mismatch", "overflow", "timeout", "closed" }

\* authenticateConsole() and what consoleServer does with its result: a
\* line equal to the password resets the failures; another line, a line of
\* 63 bytes or more and the timeout record a failure; a connection the
\* client closed records nothing (part_003:130-141, 772-854)
authenticateConsole(outcome) ==
    /\ Running
    /\ consolePc = "auth"
    /\ IF outcome = "match"
         THEN /\ authFailures' = 0
              /\ consolePc' = "session"
              /\ consoleLog' = "console:authenticated"
              /\ UNCHANGED lastFailureTime
         ELSE /\ authFailures' = IF outcome = "closed" THEN authFailures
                                                      ELSE authFailures + 1
              /\ lastFailureTime' = IF outcome = "closed" THEN lastFailureTime
                                                         ELSE now
              /\ consolePc' = "check"
              /\ consoleLog' = "console:auth-failed"
    /\ ConsoleUnchanged

\* the commands of the console that the model follows
ConsoleCommands == { "ota-enable", "reboot" }

\* processCommand(): ota-enable and reboot (part_003:503-525)
processCommand(cmd) ==
    \/ cmd = "ota-enable" /\ ConsoleOTAEnable(0)
    \/ cmd = "reboot" /\ ConsoleReboot

\* the session as it would be if commands were read during authentication
handleConsoleSessionUnauthenticated(cmd) ==
    /\ consolePc \in { "auth", "session" }
    /\ processCommand(cmd)

\* handleConsoleSession(), which consoleServer calls once
\* authenticateConsole() returned true: a command line is processed
\* (part_003:147-155, 166-240)
handleConsoleSession(cmd) ==
    /\ consolePc = "session"
    /\ processCommand(cmd)

\* the client closes its console connection: handleConsoleSession returns
\* and consoleServer starts its loop again (part_003:157-163, 172-180)
ConsoleDisconnect ==
    /\ Running
    /\ consolePc = "session"
    /\ consolePc' = "check"
    /\ consoleLog' = "console:disconnected"
    /\ UNCHANGED << authFailures, lastFailureTime >>
    /\ ConsoleUnchanged

\* the number of advances that lead to a clock reading when the clock
\* advances by one of the lockout durations
LockoutTicksOf(t) ==
    (t \div (5 * 60)) + ((t % (5 * 60)) \div 30) + ((t % 30) \div 5)

\* the advances of the clock while the console is attacked
LockoutTicks == { 5, 30, 5 * 60 }

\* time passes in the sleeps of consoleServer and of the healthy tasks,
\* which feed the watchdog
LockoutTick(d) ==
    /\ Running
    /\ LockoutTicksOf(now) < MaxLockoutTicks
    /\ systemHealthy
    /\ now' = now + d
    /\ lastFed' = now + d
    /\ UNCHANGED << pc, bootInfo, healthVars, watchdog, fatalSleeps, unhealthyAt,
                    partitionConfirmed, consoleVars, scheduleVars, spanVars, ledUpdate, telemetryVars,
                    windowVars, connState, pauseVars, localVars, lastReply,
                    lastLog, lastIn, flashVars, oddSent >>

(***************************************************************************)
(* Package telemetry: queue, sender and pause (telemetry.go)               *)
(***************************************************************************)
\* telemetry.Pause() of a session returns: sendingWg.Wait() found the counter
\* at zero (telemetry.go:392); then SetBindicatorPaused(true) (part_002:225)
PauseReturn ==
    /\ pc = "handshake"
    /\ pauseCall = "waiting"
    /\ sendingWg = 0
    /\ pauseCall' = "returned"
    /\ bindicatorPaused' = TRUE
    /\ UNCHANGED << pc, deviceVars, windowVars, connState, telemetryPaused, localVars,
                    lastReply, lastLog, lastIn, flashVars, oddSent >>

\* Log(): an entry is queued unless telemetry is paused; a full queue
\* overwrites its oldest entry (telemetry.go:142-177)
TelemetryLog ==
    /\ Running
    /\ ~telemetryPaused
    /\ LogCount' = IF LogCount >= LogQueueSize THEN LogCount ELSE LogCount + 1
    /\ UNCHANGED << pc, bootInfo, now, healthVars, watchdog, lastFed, fatalSleeps,
                    unhealthyAt, partitionConfirmed, consoleVars, scheduleVars, spanVars, ledUpdate, flushPc, sendingWg,
                    windowVars, connState, pauseVars, localVars,
                    lastReply, lastLog, lastIn, flashVars, oddSent >>

\* the position of flusher f becomes p
FlusherTo(f, p) ==
    /\ flushPc' = [flushPc EXCEPT ![f] = p]
    /\ UNCHANGED << pc, bootInfo, now, healthVars, watchdog, lastFed, fatalSleeps,
                    unhealthyAt, partitionConfirmed, consoleVars, scheduleVars, spanVars, ledUpdate,
                    windowVars, connState, pauseVars, localVars,
                    lastReply, lastLog, lastIn, flashVars, oddSent >>

\* senderLoop(): after the sleep the loop reads paused under mu and goes on
\* to flushLogs() if it is not set (telemetry.go:364-378)
senderLoop ==
    /\ Running
    /\ flushPc["senderLoop"] = "idle"
    /\ FlusherTo("senderLoop", IF telemetryPaused THEN "idle" ELSE "flush")
    /\ UNCHANGED << sendingWg, LogCount >>

\* Flush(): the console command "flush" calls flushLogs() (part_003:558,
\* telemetry.go:410-414)
Flush ==
    /\ Running
    /\ flushPc["Flush"] = "idle"
    /\ FlusherTo("Flush", "flush")
    /\ UNCHANGED << sendingWg, LogCount >>

\* flushLogs(), the part under mu: return if the queue is empty or
\* telemetry is paused, else build the payload and clear the queue; built:
\* BuildLogsJSON returned a body (telemetry.go:417-435)
flushLogs(f, built) ==
    /\ flushPc[f] = "flush"
    /\ IF LogCount = 0 \/ telemetryPaused
         THEN /\ FlusherTo(f, "idle")
              /\ UNCHANGED << sendingWg, LogCount >>
         ELSE /\ LogCount' = 0
              /\ FlusherTo(f, IF built THEN "checked" ELSE "idle")
              /\ UNCHANGED sendingWg

\* sendHTTPPost(): sendingWg.Add(1), then the request (telemetry.go:530-533)
sendHTTPPost(f) ==
    /\ flushPc[f] = "checked"
    /\ sendingWg' = sendingWg + 1
    /\ FlusherTo(f, "sending")
    /\ UNCHANGED LogCount

\* sendHTTPPost() returns: the deferred sendingWg.Done() (telemetry.go:533)
sendHTTPPostDone(f) ==
    /\ flushPc[f] = "sending"
    /\ sendingWg' = sendingWg - 1
    /\ FlusherTo(f, "idle")
    /\ UNCHANGED LogCount

(***************************************************************************)
(* Specification                                                           *)
(***************************************************************************)
Next ==
    \/ ConfirmPartition
    \/ MainStartup
    \/ fatalError
    \/ WatchdogReset
    \/ ConsoleReboot
    \/ ConsoleOTAEnable(0)
    \/ \E listenOk \in BOOLEAN : ServerPoll(listenOk)
    \/ \E connected \in BOOLEAN : ListenWait(connected)
    \/ \E in \in HandshakeInputs : Handshake(in)
    \/ HeaderTimeout
    \/ \E chunkLen \in ChunkLens, payloadOk \in BOOLEAN,
          fault \in { "none", "erase", "write" } :
            ReceiveChunk(chunkLen, payloadOk, fault)
    \/ ReceiveDone
    \/ \E rebootOk \in BOOLEAN : RebootToPartition(rebootOk)
    \/ ServerCleanup

Spec == Init /\ [][Next]_vars

\* The access window in time: the operator opens the window with the default
\* or a short timeout and asks for its status, the clock advances, and the
\* clients that connect send at most a handshake.
WindowTicks == { 1, otaDefaultTimeout }
EnableTimeouts == { 0, ShortTimeout }

WindowNext ==
    \/ ConfirmPartition
    \/ MainStartup
    \/ fatalError
    \/ WatchdogReset
    \/ ConsoleReboot
    \/ \E timeout \in EnableTimeouts : ConsoleOTAEnable(timeout)
    \/ ConsoleOTAStatus
    \/ \E d \in WindowTicks : Tick(d)
    \/ \E listenOk \in BOOLEAN : ServerPoll(listenOk)
    \/ \E connected \in BOOLEAN : ListenWait(connected)
    \/ \E in \in HandshakeInputs : Handshake(in)
    \/ HeaderTimeout
    \/ ServerCleanup

WindowSpec == Init /\ [][WindowNext]_vars

\* The boot oracle: the device starts with any answer of the ROM, and the
\* sessions, which take their target from the oracle, go as far as the
\* handshake.
BootPartitionBytes == { PartitionA, PartitionB, ThirdPartition, NoPartitionByte }
BootInfos ==
    [lookup : BOOLEAN, ret : { 0 - 1, 0 }, flag : BOOLEAN, pp : BootPartitionBytes]

OracleInit ==
    /\ bootInfo \in BootInfos
    /\ InitRest

OracleNext ==
    \/ ConfirmPartition
    \/ MainStartup
    \/ fatalError
    \/ WatchdogReset
    \/ ConsoleReboot
    \/ ConsoleOTAEnable(0)
    \/ \E listenOk \in BOOLEAN : ServerPoll(listenOk)
    \/ \E connected \in BOOLEAN : ListenWait(connected)
    \/ \E in \in HandshakeInputs : Handshake(in)
    \/ HeaderTimeout
    \/ ServerCleanup

OracleSpec == OracleInit /\ [][OracleNext]_vars

\* The functional watchdog: refreshes succeed and fail while the clock
\* advances, next to console commands and OTA sessions that go as far as
\* the handshake.
HealthTicks == { 1, maxHoursWithoutRefresh * 60 * 60 }

HealthNext ==
    \/ ConfirmPartition
    \/ MainStartup
    \/ fatalError
    \/ WatchdogReset
    \/ ConsoleReboot
    \/ ConsoleOTAEnable(0)
    \/ \E d \in HealthTicks : Tick(d)
    \/ WakeCycle
    \/ RefreshFailed
    \/ RefreshSucceeded
    \/ \E listenOk \in BOOLEAN : ServerPoll(listenOk)
    \/ \E connected \in BOOLEAN : ListenWait(connected)
    \/ \E in \in HandshakeInputs : Handshake(in)
    \/ HeaderTimeout
    \/ ServerCleanup

HealthSpec == Init /\ [][HealthNext]_vars

\* The hardware watchdog: the tasks feed it, refreshes fail and succeed, the
\* clock advances by a second or by the watchdog timeout, and a start-up
\* that fails waits in fatalError() for its reset.
WatchdogTicks == { 1, watchdogTimeout }

WatchdogNext ==
    \/ ConfirmPartition
    \/ MainStartup
    \/ fatalError
    \/ FatalSleep
    \/ FatalSoftReset
    \/ WatchdogStuck
    \/ WatchdogReset
    \/ loopForeverStack
    \/ ConsoleReboot
    \/ ConsoleOTAEnable(0)
    \/ \E d \in WatchdogTicks : Tick(d)
    \/ WakeCycle
    \/ RefreshFailed
    \/ RefreshSucceeded
    \/ \E listenOk \in BOOLEAN : ServerPoll(listenOk)
    \/ \E connected \in BOOLEAN : ListenWait(connected)
    \/ \E in \in HandshakeInputs : Handshake(in)
    \/ HeaderTimeout
    \/ ServerCleanup

WatchdogSpec == Init /\ [][WatchdogNext]_vars

\* Telemetry beside the OTA server: entries are logged, senderLoop and
\* Flush() send them, and the sessions, which pause telemetry, go as far as
\* the handshake.
TelemetryNext ==
    \/ ConfirmPartition
    \/ MainStartup
    \/ fatalError
    \/ WatchdogReset
    \/ ConsoleReboot
    \/ ConsoleOTAEnable(0)
    \/ TelemetryLog
    \/ senderLoop
    \/ Flush
    \/ \E f \in Flushers, built \in BOOLEAN : flushLogs(f, built)
    \/ \E f \in Flushers : sendHTTPPost(f)
    \/ \E f \in Flushers : sendHTTPPostDone(f)
    \/ \E listenOk \in BOOLEAN : ServerPoll(listenOk)
    \/ \E connected \in BOOLEAN : ListenWait(connected)
    \/ PauseReturn
    \/ \E in \in HandshakeInputs : Handshake(in)
    \/ HeaderTimeout
    \/ ServerCleanup

TelemetrySpec == Init /\ [][TelemetryNext]_vars

\* The waits of a session: the client is slow or silent, seconds pass in
\* the reads of the handshake, of a header and of a payload, refreshes fail,
\* and the client sends at most one chunk before it falls silent.
SessionWaitNext ==
    \/ ConfirmPartition
    \/ MainStartup
    \/ fatalError
    \/ WatchdogReset
    \/ ConsoleReboot
    \/ ConsoleOTAEnable(0)
    \/ RefreshFailed
    \/ WaitTick
    \/ \E listenOk \in BOOLEAN : ServerPoll(listenOk)
    \/ \E connected \in BOOLEAN : ListenWait(connected)
    \/ \E in \in HandshakeInputs : Handshake(in)
    \/ HeaderTimeout
    \/ \E payloadOk \in BOOLEAN :
          chunkNum = 0 /\ ReceiveChunk(otaChunkSize, payloadOk, "none")
    \/ ServerCleanup

SessionWaitSpec == Init /\ [][SessionWaitNext]_vars

\* The console under attack: connections, passwords right and wrong, time
\* passing by a lockout duration, and the reboot command.
LockoutNext ==
    \/ ConfirmPartition
    \/ MainStartup
    \/ ConsoleLockedOut
    \/ \E listenOk \in BOOLEAN : ConsoleListen(listenOk)
    \/ \E connected \in BOOLEAN : ConsoleAccept(connected)
    \/ \E outcome \in AuthOutcomes : authenticateConsole(outcome)
    \/ handleConsoleSession("reboot")
    \/ ConsoleDisconnect
    \/ \E d \in LockoutTicks : LockoutTick(d)

LockoutSpec == Init /\ [][LockoutNext]_vars

\* The console and the OTA port: console connections with and without the
\* password, the commands of an authenticated connection, and clients of
\* the OTA port, with the clock frozen.
ConsoleNext ==
    \/ ConfirmPartition
    \/ MainStartup
    \/ fatalError
    \/ WatchdogReset
    \/ ConsoleLockedOut
    \/ \E listenOk \in BOOLEAN : ConsoleListen(listenOk)
    \/ \E connected \in BOOLEAN : ConsoleAccept(connected)
    \/ \E outcome \in AuthOutcomes : authenticateConsole(outcome)
    \/ \E cmd \in ConsoleCommands : handleConsoleSession(cmd)
    \/ ConsoleDisconnect
    \/ \E listenOk \in BOOLEAN : ServerPoll(listenOk)
    \/ \E connected \in BOOLEAN : ListenWait(connected)
    \/ \E in \in HandshakeInputs : Handshake(in)
    \/ HeaderTimeout
    \/ ServerCleanup

ConsoleSpec == Init /\ [][ConsoleNext]_vars

\* The spans of the tasks: spans start and end in any order and the sender
\* flushes the completed ones.
SpanNext ==
    \/ ConfirmPartition
    \/ MainStartup
    \/ StartSpan
    \/ \E idx \in SpanSlots : EndSpan(idx)
    \/ flushSpans

SpanSpec == Init /\ [][SpanNext]_vars

\* The schedule: the broker answers with any response of ScheduleResponses
\* and the firmware parses it; later responses are short.
ScheduleNext ==
    \/ ConfirmPartition
    \/ MainStartup
    \/ \E data \in ScheduleResponses : ScheduleResponse(data)
    \/ parseScheduleResponse

ScheduleSpec == Init /\ [][ScheduleNext]_vars

(***************************************************************************)
(* Properties                                                              *)
(***************************************************************************)
IsError(reply) ==
    reply.kind \in { "ERROR chunk too large", "ERROR firmware too large",
                     "ERROR erase failed", "ERROR write failed",
                     "ERROR hash mismatch" }

SessionOpen == pc \in { "handshake", "receiving", "verified" }

\* the raw bytes [off, off + len) lie inside the partition
InPartition(partition, off, len) ==
    /\ PartitionBytes(partition).lo <= off
    /\ off + len <= PartitionBytes(partition).hi

\* C1: VERIFIED is sent, and the reboot-to-target call is about to be issued,
\* only when the digest the client supplied was compared with the SHA-256 of
\* the bytes received in this session and found equal.
C1_RebootOnlyAfterDigestMatch ==
    pc = "verified" =>
        /\ actualHashHex = formatHashHex(Sha256Sum(hasher))
        /\ hasher = totalBytes
        /\ expectedHash = actualHashHex

\* C2: every erase and every write of a session addresses only bytes of the
\* target partition, the other one than the partition executing.
C2_FlashOpsInsideTarget ==
    /\ \A o \in flashErases \cup stepErases :
          InPartition(GetTargetPartition, o, SectorSize)
    /\ stepWrite # NoWrite =>
          InPartition(GetTargetPartition, stepWrite.off, stepWrite.len)

\* C3: in a session no sector is erased twice, no write lands in a sector
\* for which the session has issued no erase, and a session starts with an
\* empty erase bitmap that from then on names exactly the sectors erased.
C3_EraseOnceBeforeWrite ==
    /\ reErased = {}
    /\ dirtyWrites = {}
    /\ pc = "receiving" /\ chunkNum = 0 => erasedSectors = {} /\ flashErases = {}
    /\ flashErases = { partitionOffset + sector * SectorSize : sector \in erasedSectors }

\* C3 witness: a chunk was written across two sectors of which the first had
\* been erased for an earlier chunk and only the second was erased now.
C3_Witness ==
    /\ pc = "receiving"
    /\ stepWrite # NoWrite
    /\ Cardinality(WriteSectors(stepWrite.off, stepWrite.len)) = 2
    /\ Cardinality(stepErases) = 1
    /\ Cardinality(flashErases) >= 3

\* C4: chunks then DONE with the correct SHA-256 yields VERIFIED; the same
\* chunks then DONE with a wrong SHA-256 yields ERROR hash mismatch and the
\* session ends without VERIFIED or reboot (stated for a line whose rest
\* the session reads whole or, the client being slow, not at all).
C4_RoundTrip ==
    lastIn.kind = "DONE" /\ lastIn.n2 \in { 0, lastIn.len } =>
        /\ lastIn.sent = "lower" => lastReply.kind = "VERIFIED"
        /\ lastIn.sent = "wrong" =>
              /\ lastReply.kind = "ERROR hash mismatch"
              /\ ~SessionOpen

\* C5 as claimed: a DONE line, read whole, whose digest equals the computed
\* one up to letter case (sent in upper case) is answered VERIFIED.
C5_CaseInsensitiveMatch ==
    lastIn.kind = "DONE" /\ lastIn.sent = "upper" /\ lastIn.n2 = lastIn.len =>
        lastReply.kind = "VERIFIED"

\* the 64 characters a client of the given kind puts on its DONE line
DoneDigest(sent, hex) == SubSeq(DoneTail(sent, hex), 2, HashHexLen + 1)

\* C5 as amended: the comparison is an exact, case-sensitive match: a DONE
\* line, read whole, that carries a 64-character digest is answered VERIFIED
\* if the digest equals the lower-case hex of the computed SHA-256 character
\* for character, and ERROR hash mismatch otherwise.
C5_ExactMatch ==
    [][ ( /\ pc = "receiving"
          /\ lastIn'.kind = "DONE"
          /\ lastIn'.sent # "none"
          /\ lastIn'.n2 = lastIn'.len )
        => LET hex == formatHashHex(Sha256Sum(hasher))
           IN  IF DoneDigest(lastIn'.sent, hex) = hex
                 THEN lastReply'.kind = "VERIFIED" /\ pc' = "verified"
                 ELSE lastReply'.kind = "ERROR hash mismatch" /\ pc' = "cleanup"
      ]_vars

\* C5 witness: an upper-case digest, read whole, was refused.
C5_Witness ==
    /\ lastIn.kind = "DONE"
    /\ lastIn.sent = "upper"
    /\ lastIn.n2 = lastIn.len
    /\ lastReply.kind = "ERROR hash mismatch"
    /\ pc = "cleanup"

\* C6: a chunk header claiming more than 4096 bytes is answered with an
\* ERROR line, the session ends, and nothing of the chunk is hashed, erased
\* for or written.
C6_OversizeChunkRejected ==
    lastIn.kind = "chunk" /\ lastIn.len > otaChunkSize =>
        /\ IsError(lastReply)
        /\ ~SessionOpen
        /\ stepHashed = 0
        /\ stepErases = {}
        /\ stepWrite = NoWrite

\* C7: the bytes received never exceed the partition's maximum image size,
\* and a chunk header that would take them beyond it is answered with an
\* ERROR line and ends the session with nothing of the chunk hashed, erased
\* for or written.
C7_CumulativeSizeBounded ==
    /\ [](totalBytes <= GetPartitionMaxSize /\ hasher <= GetPartitionMaxSize)
    /\ [][ ( /\ pc = "receiving"
             /\ lastIn'.kind \in { "chunk", "payload-timeout" }
             /\ totalBytes + lastIn'.len > GetPartitionMaxSize )
           => /\ IsError(lastReply')
              /\ pc' = "cleanup"
              /\ stepHashed' = 0
              /\ stepErases' = {}
              /\ stepWrite' = NoWrite
         ]_vars

\* C7 witness: a chunk of an accepted length was refused because the image
\* would have outgrown the partition.
C7_Witness ==
    /\ pc = "cleanup"
    /\ lastIn.kind = "chunk"
    /\ lastIn.len <= otaChunkSize
    /\ lastReply.kind = "ERROR firmware too large"
    /\ lastLog = "ota:firmware-too-large"

\* C8: a malformed handshake, an oversize chunk, an oversize image and a
\* DONE line without a digest each end the session with an ERROR line sent.
C8_ProtocolErrorsReplyError ==
    /\ lastIn.kind \in { "bad", "short" } => IsError(lastReply)
    /\ lastIn.kind = "chunk" /\ lastIn.len > otaBufSize => IsError(lastReply)
    /\ lastLog = "ota:firmware-too-large" => IsError(lastReply)
    /\ lastIn.kind = "DONE" /\ lastIn.sent = "none" =>
          IsError(lastReply) /\ ~SessionOpen

\* C9: after a read that timed out (header, payload, or the rest of the
\* DONE line) the session is over: no VERIFIED, no reboot call pending.
C9_TimeoutAborts ==
    \/ lastIn.kind \in { "header-timeout", "payload-timeout" }
    \/ lastIn.kind = "DONE" /\ lastIn.n2 = 0
    => /\ ~SessionOpen
       /\ lastReply.kind # "VERIFIED"

\* C10: a flash erase or write that failed is answered with an ERROR line
\* and ends the session; the chunk is not acknowledged.
C10_FlashFailureReported ==
    flashFault # "none" =>
        /\ IsError(lastReply)
        /\ lastReply.kind # "ACK"
        /\ ~SessionOpen

\* C11 as claimed: when the server loop is done with a session that an error
\* aborted and the window was valid, the window is valid afterwards, so the
\* loop goes back to listening without a new ota-enable.
C11_ErrorKeepsWindow ==
    [][ ( /\ pc = "cleanup"
          /\ pc' = "idle"
          /\ OTAIsEnabledResult )
        => OTAIsEnabledResult'
      ]_vars

C13_DisabledBeforeReboot ==
    pc = "verified" => ~otaEnabled

\* C14: the server starts disabled; the listener is opened only from the
\* idle loop with OTAIsEnabled() true; a session begins only from the
\* listener with OTAIsEnabled() true at the check after the wait; and when
\* that check finds the window disabled or expired the listener is aborted
\* and the loop is idle again.
C14_ListenerOnlyWhileEnabled ==
    /\ [](pc = "boot" => ~otaEnabled /\ connState = "closed")
    /\ [](connState = "listen" <=> pc = "listening")
    /\ [][ /\ (pc = "init" /\ pc' = "idle") => ~otaEnabled'
           /\ (pc # "listening" /\ pc' = "listening") =>
                 pc = "idle" /\ OTAIsEnabledResult
           /\ (pc # "handshake" /\ pc' = "handshake") =>
                 pc = "listening" /\ OTAIsEnabledResult
           /\ (pc = "listening" /\ pc' = "idle" /\ ~OTAIsEnabledResult) =>
                 /\ connState' = "closed"
                 /\ ~otaEnabled'
                 /\ lastLog' = "ota:disabled-while-waiting"
         ]_vars

\* C14 witness: the window expired while the listener waited for a client,
\* and the loop is idle with the listener aborted.
C14_Witness ==
    /\ pc = "idle"
    /\ connState = "closed"
    /\ lastLog = "ota:disabled-while-waiting"
    /\ now - otaEnabledAt > otaTimeout

\* C15: enable(0) sets the default timeout of 10 minutes and isEnabled() is
\* true right after it; once the clock is past the timeout, counted from the
\* last enable, isEnabled() is false; after disable() isEnabled() is false
\* whatever time remains.
C15_WindowOperations ==
    /\ [](otaEnabled /\ now - otaEnabledAt > otaTimeout => ~OTAIsEnabledResult)
    /\ [][ /\ ConsoleOTAEnable(0) =>
                 /\ otaTimeout' = 10 * 60
                 /\ otaEnabledAt' = now'
                 /\ OTAIsEnabledResult'
           /\ ServerCleanup => ~OTAIsEnabledResult'
         ]_vars

\* C15 witness: the window was opened with the default timeout, the clock is
\* past it, and isEnabled() is false though the flag is still set.
C15_Witness ==
    /\ otaEnabled
    /\ otaTimeout = otaDefaultTimeout
    /\ now - otaEnabledAt > otaDefaultTimeout
    /\ ~OTAIsEnabledResult

\* C16 as claimed: isEnabled() is true exactly when the flag is set and
\* now - enabledAt < timeout.
C16_StrictExpiry ==
    OTAIsEnabledResult <=> (otaEnabled /\ now - otaEnabledAt < otaTimeout)

\* C17: whatever the boot oracle reports, the target is one of the two
\* partitions and differs from the current one; it is B for A and A for B;
\* and it is the partition a session writes to.
C17_TargetIsOther ==
    /\ GetTargetPartition \in { PartitionA, PartitionB }
    /\ GetTargetPartition # GetCurrentPartition
    /\ GetCurrentPartition = PartitionA => GetTargetPartition = PartitionB
    /\ GetCurrentPartition = PartitionB => GetTargetPartition = PartitionA
    /\ pc = "receiving" =>
          /\ targetPartition = GetTargetPartition
          /\ partitionOffset = GetPartitionOffset(targetPartition)

\* C17 witness: a session on a device whose ROM reports a third partition
\* as the current one writes to partition A.
C17_Witness ==
    /\ pc = "receiving"
    /\ GetCurrentPartition = ThirdPartition
    /\ targetPartition = PartitionA

\* C18: when the ROM lookup fails, the query returns an error, the boot-info
\* flag is missing or the partition byte is 0xFF, the current partition is
\* A and the target of an update is B.
C18_OracleDefaultsToA ==
    ( \/ ~bootInfo.lookup
      \/ bootInfo.ret < 0
      \/ ~bootInfo.flag
      \/ bootInfo.pp = NoPartitionByte )
    => /\ GetCurrentPartition = PartitionA
       /\ GetTargetPartition = PartitionB
       /\ pc = "receiving" => targetPartition = PartitionB

\* C18 witness: a session on a device whose boot info is well-formed and
\* names no partition writes to partition B.
C18_Witness ==
    /\ pc = "receiving"
    /\ bootInfo.lookup /\ bootInfo.ret = 0 /\ bootInfo.flag
    /\ bootInfo.pp = NoPartitionByte
    /\ targetPartition = PartitionB
    /\ partitionOffset = PARTITION_B_OFFSET

\* C19: the listener is open only while the server loop waits for a client,
\* so no connection is accepted while a session is open; the state of a
\* transfer (target, erase bitmap, byte count, hash) exists only inside the
\* one open session, and a session starts with it fresh.
C19_SingleSession ==
    /\ [](connState = "listen" <=> pc = "listening")
    /\ [](SessionOpen => connState = "established")
    /\ [](~SessionOpen =>
            /\ targetPartition = NoPartition
            /\ erasedSectors = {} /\ flashErases = {}
            /\ totalBytes = 0 /\ hasher = 0 /\ chunkNum = 0
            /\ ~telemetryPaused /\ ~bindicatorPaused)
    /\ [][ /\ (pc # "handshake" /\ pc' = "handshake") => pc = "listening"
           /\ (pc = "handshake" /\ pc' = "receiving") =>
                 /\ erasedSectors' = {}
                 /\ totalBytes' = 0 /\ hasher' = 0 /\ chunkNum' = 0
         ]_vars

\* C19 witness: a session that has received chunks holds the connection.
C19_Witness ==
    /\ pc = "receiving"
    /\ connState = "established"
    /\ chunkNum >= 2
    /\ erasedSectors # {}

\* C20: systemHealthy goes from false to true only by a reset of the device.
C20_HealthyOneWay ==
    [][ (~systemHealthy /\ systemHealthy') => (pc' = "boot" /\ now' = 0) ]_vars

\* C20 witness: the device is unhealthy after a refresh has succeeded and
\* reset the failure count, with an OTA session open.
C20_Witness ==
    /\ ~systemHealthy
    /\ consecutiveFailures = 0
    /\ lastSuccessfulRefresh = now
    /\ SessionOpen

(***************************************************************************)
(* The watchdogs                                                           *)
(***************************************************************************)
\* the main loop reports a refresh failure in this step
ReportsFailure == Running /\ consecutiveFailures' = consecutiveFailures + 1

\* the main loop reports a refresh success in this step
ReportsSuccess ==
    /\ Running
    /\ pc' = pc
    /\ now' = now
    /\ consecutiveFailures' = 0
    /\ lastSuccessfulRefresh' = now

RefreshLimit == maxHoursWithoutRefresh * 60 * 60

\* C21: once systemHealthy is false no task feeds the hardware watchdog any
\* more: the time of the last feed changes only with a reset, whether the
\* step is the main loop's, the packet pump's or that of an OTA session.
C21_NeverFedOnceUnhealthy ==
    [][ ~systemHealthy => (lastFed' = lastFed \/ pc' = "boot") ]_vars

\* an unhealthy device ran a turn of the receive loop of an OTA session, time
\* passed, and the watchdog was not fed
C21_Witness ==
    /\ ~systemHealthy
    /\ pc = "cleanup"
    /\ lastLog = "ota:read-timeout"
    /\ unhealthyAt < now
    /\ lastFed < now

\* C22 as stated: from a healthy state a reported failure leaves the device
\* healthy exactly if fewer than 3 consecutive failures are counted, and a
\* success resets the counter and leaves systemHealthy as it was.
C22_ThreeFailures ==
    /\ [][ (systemHealthy /\ ReportsFailure)
             => (systemHealthy' <=> consecutiveFailures' < maxConsecutiveFailures) ]_vars
    /\ [][ ReportsSuccess
             => (systemHealthy' = systemHealthy /\ consecutiveFailures' = 0) ]_vars

\* C22 as amended: the count decides only while less than 12 hours passed
\* since the last success: then the third consecutive failure, and no
\* earlier one, makes systemHealthy false; a success resets the counter and
\* leaves systemHealthy as it was.
C22_ThreeFailuresWithinLimit ==
    /\ [][ (systemHealthy /\ ReportsFailure /\ now - lastSuccessfulRefresh < RefreshLimit)
             => (systemHealthy' <=> consecutiveFailures' < maxConsecutiveFailures) ]_vars
    /\ [][ ReportsSuccess
             => (systemHealthy' = systemHealthy /\ consecutiveFailures' = 0) ]_vars

\* the third failure within the limit made the device unhealthy
C22_Witness ==
    /\ ~systemHealthy
    /\ consecutiveFailures = maxConsecutiveFailures
    /\ unhealthyAt = now
    /\ now - lastSuccessfulRefresh < RefreshLimit

\* C23: after every reported failure the hours since the last success are
\* tested whatever the failure count: if 12 hours or more passed,
\* systemHealthy is false after the failure, also with fewer than 3 failures.
C23_TimeLimitAfterFailure ==
    [][ (ReportsFailure /\ now - lastSuccessfulRefresh >= RefreshLimit)
          => ~systemHealthy' ]_vars

\* the first failure, 12 hours after the last success, made the device
\* unhealthy
C23_Witness ==
    /\ ~systemHealthy
    /\ consecutiveFailures = 1
    /\ unhealthyAt = now
    /\ now - lastSuccessfulRefresh >= RefreshLimit

\* C24: with the hardware watchdog running, the device is never unhealthy for
\* longer than the watchdog timeout: the reset comes within 8 s of the
\* moment systemHealthy became false.
C24_ResetWithinTimeout ==
    (~systemHealthy /\ watchdog = "running") => now - unhealthyAt <= watchdogTimeout

\* the tasks of an unhealthy device still run at the end of the timeout
C24_Witness ==
    /\ ~systemHealthy
    /\ watchdog = "running"
    /\ Running
    /\ now - unhealthyAt = watchdogTimeout

\* C25: in fatalError() systemHealthy is false from the first step, the wait
\* lasts at most 15 s, the function is left only by a reset (that of the
\* hardware watchdog, or ota.Reboot() after the 15 s), and so no step of the
\* start-up follows it.
C25_FatalErrorResets ==
    /\ [](pc = "fatal" => /\ ~systemHealthy
                          /\ fatalSleeps <= fatalWaitSeconds
                          /\ now - unhealthyAt = fatalSleeps)
    /\ [][ (pc # "fatal" /\ pc' = "fatal") => (~systemHealthy' /\ unhealthyAt' = now') ]_vars
    /\ [][ pc = "fatal" => pc' \in { "fatal", "boot" } ]_vars
    /\ [][ (pc = "fatal" /\ pc' = "boot")
             => (watchdog = "running" \/ fatalSleeps = fatalWaitSeconds) ]_vars

\* the watchdog did not trigger and fatalError() waited its 15 s
C25_Witness ==
    /\ pc = "fatal"
    /\ watchdog = "stuck"
    /\ fatalSleeps = fatalWaitSeconds

\* C26: on every boot, whatever the ROM answers about the booted partition,
\* the confirmation is the first step of main(): nothing else runs before
\* it, no time passes before it, and the watchdog is started and
\* fatalError() entered only after it.
C26_ConfirmFirst ==
    /\ [](pc # "boot" => partitionConfirmed)
    /\ [](pc = "boot" => watchdog = "off" /\ now = 0)
    /\ [][ (pc = "boot" /\ pc' # "boot")
             => (partitionConfirmed' /\ now' = now /\ watchdog' = "off") ]_vars

\* a boot from partition A confirmed and then failed in its start-up
C26_Witness ==
    /\ pc = "fatal"
    /\ partitionConfirmed
    /\ GetCurrentPartition = PartitionA
    /\ bootInfo.pp = NoPartitionByte

C29_DutyCyclePaused ==
    [][ (pc = "receiving" /\ bindicatorPaused)
          => /\ ~(RefreshFailed \/ RefreshSucceeded)
             /\ (ledUpdate' = "applied" => ledUpdate = "applied") ]_vars

(***************************************************************************)
(* The replies to the chunks                                               *)
(***************************************************************************)
\* the value of a digit of a decimal number
DigitValue(c) == CHOOSE d \in 0..9 : DecimalDigits[d + 1] = c

RECURSIVE DecimalValue(_)
\* the number a client reads from decimal digits
DecimalValue(digits) ==
    IF digits = << >> THEN 0
    ELSE 10 * DecimalValue(SubSeq(digits, 1, Len(digits) - 1))
           + DigitValue(digits[Len(digits)])

\* the session accepts a chunk in this step
AcceptsChunk == pc = "receiving" /\ pc' = "receiving" /\ chunkNum' = chunkNum + 1

\* the session received the whole image as the CLI sends it
ImageReceived ==
    /\ pc = "receiving"
    /\ totalBytes = ImageSize
    /\ chunkNum = ImageChunks
    /\ lastIn.kind = "chunk"
    /\ lastIn.len = LastChunkLen

\* C30: every accepted chunk is answered with ACK n, n being the bytes
\* accepted so far in the session, written in decimal; so the chunks of the
\* image, all of otaChunkSize but the last, are answered one after the other
\* with ACK otaChunkSize, ACK 2 * otaChunkSize, ... and ACK ImageSize, and
\* when the image is received every sector it reaches (3 for 10,000 bytes)
\* has been erased exactly once.
C30_AckCumulative ==
    /\ [][ AcceptsChunk
             => /\ lastReply' = [kind |-> "ACK", n |-> totalBytes + lastIn'.len]
                /\ totalBytes' = totalBytes + lastIn'.len ]_vars
    /\ [](pc = "receiving" /\ lastReply.kind = "ACK"
            => /\ lastReply.n = totalBytes
               /\ DecimalValue(writeOTAInt(lastReply.n)) = totalBytes)
    /\ [](pc = "receiving" /\ oddSent = 0 /\ chunkNum > 0
            => lastReply = [kind |-> "ACK", n |-> chunkNum * otaChunkSize])
    /\ [](ImageReceived
            => /\ lastReply = [kind |-> "ACK", n |-> ImageSize]
               /\ erasedSectors = 0..((ImageSize - 1) \div SectorSize)
               /\ Cardinality(flashErases) = Cardinality(erasedSectors)
               /\ reErased = {})

\* the image was received in 3 chunks, the last answered with ACK <ImageSize>,
\* and 3 sectors are erased
C30_Witness ==
    /\ ImageReceived
    /\ ImageChunks = 3
    /\ lastReply.n = ImageSize
    /\ Cardinality(flashErases) = 3

(***************************************************************************)
(* Handshake, reboot and the end of a session                              *)
(***************************************************************************)
\* C36: a client whose first three bytes are OTA, sent within the handshake
\* timeout, is answered READY <max_size>, max_size being the maximum image
\* size of the partition and the bound on the bytes received; any other
\* first input, and a timeout, gets no READY and no erase or write.
C36_ReadyOnOTA ==
    /\ [][ (pc = "handshake" /\ lastIn'.kind \in { "OTA", "OTA3", "split" })
             => /\ pc' = "receiving"
                /\ lastReply' = [kind |-> "READY", n |-> GetPartitionMaxSize]
                /\ otaMaxFwSize = GetPartitionMaxSize ]_vars
    /\ [][ (pc = "handshake" /\ lastIn'.kind \in { "bad", "short", "timeout" })
             => /\ pc' = "cleanup"
                /\ lastReply'.kind # "READY"
                /\ stepErases' = {}
                /\ stepWrite' = NoWrite ]_vars

\* C37: a reboot call that returns is logged as ota:reboot-failed, the paused
\* tasks are resumed and the session ends; the server then closes the
\* connection and is idle again, it neither waits nor calls the reboot again.
C37_RebootReturnIsFailure ==
    /\ [][ (pc = "verified" /\ pc' # "boot")
             => /\ pc' = "cleanup"
                /\ lastLog' = "ota:reboot-failed"
                /\ ~telemetryPaused'
                /\ ~bindicatorPaused' ]_vars
    /\ [](pc = "cleanup" => ENABLED ServerCleanup)
    /\ [][ (pc = "cleanup" /\ pc' \notin { "cleanup", "boot" })
             => (pc' = "idle" /\ connState' = "closed" /\ ~otaEnabled') ]_vars

\* the server is idle again after a reboot call that returned
C37_Witness ==
    /\ pc = "idle"
    /\ lastLog = "ota:reboot-failed"
    /\ lastReply.kind = "VERIFIED"
    /\ connState = "closed"

\* C38: a session ends after a bounded number of protocol steps whatever the
\* client sends: every chunk that is accepted, and so keeps the session
\* open, adds to the bytes received, which are bounded by otaMaxFwSize.
C38_SessionProgress ==
    [][ AcceptsChunk => (totalBytes' > totalBytes /\ totalBytes' <= otaMaxFwSize) ]_vars

\* C39: the reboot into the target is reached only by a session that wrote
\* at least one byte to the target partition: VERIFIED is never answered to
\* a DONE that comes before any accepted chunk.
C39_RebootOnlyAfterWrite ==
    pc = "verified" => totalBytes > 0

\* C40: at most one telemetry HTTP send is in progress at any time, whoever
\* started the flushes.
C40_SingleSend ==
    Cardinality({ f \in Flushers : flushPc[f] = "sending" }) <= 1

\* C35: while the device is healthy, the watchdog is fed at intervals shorter
\* than its timeout all through a session, however long the client lets the
\* session wait in the handshake read, a header or payload read or the read
\* of the DONE line: no wait of a session ends in a watchdog reset.
C35_SessionWaitsFed ==
    (systemHealthy /\ SessionOpen /\ watchdog = "running")
        => now - lastFed < watchdogTimeout

\* a healthy session waited the whole handshake timeout for its client
C35_Witness ==
    /\ systemHealthy
    /\ pc = "handshake"
    /\ waited = otaInitTimeout
    /\ now - lastFed < watchdogTimeout

(***************************************************************************)
(* The console: lockout and authentication                                 *)
(***************************************************************************)
\* a console connection is accepted
ConsoleAccepted == consolePc # "auth" /\ consolePc' = "auth"

\* C31: once the authentication failures since the last successful login
\* are at least 3, no console connection is accepted until 5 s after the
\* latest failure; at least 5, until 30 s after it; at least 10, until 5
\* minutes after it.  A successful authentication resets the count to
\* zero, and but for a reset of the device nothing else lowers it: an
\* elapsed lockout does not.
C31_ProgressiveLockout ==
    /\ [][ ConsoleAccepted
             => /\ authFailures >= 3 => now - lastFailureTime >= 5
                /\ authFailures >= 5 => now - lastFailureTime >= 30
                /\ authFailures >= 10 => now - lastFailureTime >= 5 * 60 ]_vars
    /\ [][ (consolePc = "auth" /\ consolePc' = "session") => authFailures' = 0 ]_vars
    /\ [][ authFailures' < authFailures
             => (consolePc = "auth" /\ consolePc' = "session") \/ pc' = "boot" ]_vars

\* a connection is accepted five minutes after the tenth failure
C31_Witness ==
    /\ consolePc = "auth"
    /\ authFailures >= 10
    /\ now - lastFailureTime >= 5 * 60

\* C32: the window becomes enabled, or its times are set, only by a command
\* processed on a console connection that passed the password
\* authentication; the server listens on the OTA port and a session starts
\* only with the window enabled, so neither console connections without
\* the password nor traffic on the OTA port enable the window or start a
\* session.
C32_EnableNeedsAuthentication ==
    /\ [][ (otaEnabled' /\ windowVars' # windowVars) => consolePc = "session" ]_vars
    /\ [][ (pc = "idle" /\ pc' = "listening") => otaEnabled ]_vars
    /\ [][ (pc = "listening" /\ pc' = "handshake") => otaEnabled ]_vars

\* a session runs in a window that the operator enabled, and a later
\* console connection failed its authentication
C32_Witness ==
    /\ pc = "handshake"
    /\ otaEnabled
    /\ authFailures > 0
    /\ consoleLog = "console:auth-failed"

(***************************************************************************)
(* Telemetry spans                                                         *)
(***************************************************************************)
\* the span of slot i was ended and no flush has sent it
EndedUnflushed(i) ==
    ~SpanQueue[i].Active /\ SpanQueue[i].Ended /\ ~SpanQueue[i].Flushed

\* C34: a span that was ended and not yet flushed is never overwritten: its
\* slot keeps the span until a flush has sent it, and StartSpan does not
\* take such a slot while another slot is free.
C34_EndedSpanKept ==
    [][ \A i \in SpanSlots :
          EndedUnflushed(i)
            => \/ SpanQueue'[i] = SpanQueue[i]
               \/ SpanQueue'[i] = [SpanQueue[i] EXCEPT !.Flushed = TRUE] ]_vars

(***************************************************************************)
(* The schedule                                                            *)
(***************************************************************************)
\* the names of the bin types
BinNames ==
    { << "G", "R", "E", "E", "N" >>, << "g", "r", "e", "e", "n" >>,
      << "B", "L", "A", "C", "K" >>, << "b", "l", "a", "c", "k" >>,
      << "B", "R", "O", "W", "N" >>, << "b", "r", "o", "w", "n" >> }

\* an entry is YYYY-MM-DD:TYPE with a date and the name of a bin type
WellFormedEntry(entry) ==
    /\ Len(entry) >= 11
    /\ \A i \in { 1, 2, 3, 4, 6, 7, 9, 10 } : entry[i] \in DigitBytes
    /\ entry[5] = "-" /\ entry[8] = "-" /\ entry[11] = ":"
    /\ SubSeq(entry, 12, Len(entry)) \in BinNames
    /\ atoi4(SubSeq(entry, 1, 4)) > 0
    /\ atoi2(SubSeq(entry, 6, 7)) \in 1 .. 12
    /\ atoi2(SubSeq(entry, 9, 10)) \in 1 .. 31

\* the job of a well-formed entry
JobOf(entry) ==
    [Year |-> atoi4(SubSeq(entry, 1, 4)),
     Month |-> atoi2(SubSeq(entry, 6, 7)),
     Day |-> atoi2(SubSeq(entry, 9, 10)),
     Bin |-> IF entry[12] \in { "G", "g" } THEN BinGreen
             ELSE IF entry[13] \in { "L", "l" } THEN BinBlack ELSE BinBrown]

\* the jobs of the well-formed entries of a response, in their order, up
\* to the capacity of the storage
ExpectedJobs(entries) ==
    LET valid == SelectSeq(entries, WellFormedEntry)
        kept == IF Len(valid) < maxJobs THEN Len(valid) ELSE maxJobs
    IN  [i \in 1 .. kept |-> JobOf(valid[i])]

\* C33: whatever the response, after parseScheduleResponse the storage
\* holds at most 15 jobs and nothing of the schedule before: the jobs of
\* the well-formed entries with a known bin type, in the order of the
\* response, up to the fifteenth, with malformed and unknown entries
\* skipped; the count returned is the number stored.
C33_ParseStoresValidEntries ==
    schedulePc = "parsed"
      => /\ jobCount <= maxJobs
         /\ jobCount = Len(jobStorage)
         /\ jobStorage = ExpectedJobs(scheduleData.entries)

====
